---- MODULE Spec2Model ----
(***************************************************************************)
(* Model of the schema migration tools:                                    *)
(*   - CrossDatabaseModelImporter (src/import_models_to_db.py): dependency *)
(*     analysis, topological sort and the staged create_tables_ordered run *)
(*   - PostgreSQLORMGenerator (src/unnamed/part_000): the same dependency  *)
(*     analysis and topological sort                                       *)
(***************************************************************************)
EXTENDS Integers, Sequences, FiniteSets, TLC

(* ------------------------------ bounds --------------------------------- *)
\* number of tables of the dependency map handed to the sort alone
NumTables == 3
\* largest number of dependency edges of that map
MaxFKs == 3
\* number of tables of the working set of a create_tables_ordered run
NumRunTables == 2
\* largest number of foreign keys of that working set
MaxRunFKs == 1
\* largest number of indexes defined on one table descriptor
MaxIdx == 2
\* largest number of failures the environment injects into one run
MaxFaults == 1
\* largest number of columns of the table handed to generate_orm_class_code
MaxCols == 2
\* largest number of digits of a declared length such as VARCHAR(8000)
MaxDigits == 4

VARIABLES
    db_type,             \* self.db_type: dialect name of the target engine
    drop_existing,       \* argument of create_tables_ordered
    fks,                 \* table -> set of tables named by its foreign keys
    indexes,             \* table -> table.indexes of the descriptor
    dbTables,            \* tables that exist on the target
    dbIndexes,           \* table -> secondary indexes that exist on the target
    dependencies,        \* dict built by analyze_table_dependencies
    in_degree,           \* local of the topological sort
    queue,               \* local of the topological sort
    result,              \* local of the topological sort
    sorted_tables,       \* value returned by the topological sort
    pc,                  \* position in the run
    pos,                 \* index of the loop the run is in
    created_tables,      \* phase-1 success list
    failed_tables,       \* phase-1 failure list (table names)
    index_created_count, \* phase-2 counter
    index_failed_count,  \* phase-2 counter
    log,                 \* operations issued so far, in order
    faults,              \* failures injected so far
    exc,                 \* an exception is propagating out of the try body
    ret,                 \* value returned by create_tables_ordered
    engine,              \* self.engine is set (connect() created the engine)
    target_database,     \* argument of the generator's entry points
    columns,             \* table -> table.columns of the reflected table
    tables,              \* local of generate_orm_classes: the reflected tables
    orm_codes,           \* table -> descriptor generated for it
    primary_key_columns, \* local of generate_orm_class_code
    previous_result,     \* what an earlier call of the same function left
    mapped_type,         \* value returned by get_python_type_mapping
    db_indexes,          \* what inspector.get_indexes(table.name) answers
    table_args,          \* value returned by _get_table_indexes
    differences,         \* value returned by check_table_differences
    generator_sort       \* locals of the generator's topological_sort

vars == << db_type, drop_existing, fks, indexes, dbTables, dbIndexes,
           dependencies, in_degree, queue, result, sorted_tables, pc, pos,
           created_tables, failed_tables, index_created_count,
           index_failed_count, log, faults, exc, ret, engine, target_database,
           columns, tables, orm_codes, primary_key_columns, previous_result,
           mapped_type, db_indexes, table_args, differences, generator_sort >>

sortVars == << dependencies, in_degree, queue, result, sorted_tables >>
runVars == << dbTables, dbIndexes, pos, created_tables, failed_tables,
              index_created_count, index_failed_count, log, faults, exc, ret >>
inputVars == << db_type, drop_existing, fks, indexes, engine >>
callVars == << mapped_type, db_indexes, table_args >>
sideVars == << differences, generator_sort >>
genVars == << target_database, columns, tables, orm_codes, primary_key_columns,
             callVars >>

\* check_table_differences has not been called and the generator's sort is
\* not running next to the importer's
SideCallsIdle ==
    /\ differences = << >>
    /\ generator_sort = << >>

\* no helper of the generator has been called on its own
HelpersIdle ==
    /\ mapped_type = << >>
    /\ db_indexes = << >>
    /\ table_args = << >>

\* the generator has not been invoked
GeneratorIdle ==
    /\ target_database = "none"
    /\ columns = << >>
    /\ tables = {}
    /\ orm_codes = << >>
    /\ primary_key_columns = << >>
    /\ HelpersIdle
    /\ SideCallsIdle

(* ------------------------------ helpers -------------------------------- *)
Range(s) == { s[k] : k \in DOMAIN s }

\* position of x in the sequence s (0 when absent)
IndexOf(s, x) == IF x \in Range(s) THEN CHOOSE k \in DOMAIN s : s[k] = x ELSE 0

\* all orders in which the elements of the set S can be iterated
Orderings(S) ==
    { s \in [1..Cardinality(S) -> S] : \A a, b \in DOMAIN s : a # b => s[a] # s[b] }

Reverse(s) == [k \in 1..Len(s) |-> s[Len(s) + 1 - k]]

(* ---------------------------- working set ------------------------------ *)
Tables == 1..NumTables
RunTables == 1..NumRunTables
\* a table that exists but is not part of any working set
Outside == NumTables + NumRunTables + 1
\* iteration order of a dict keyed by tables: the keys are inserted in the
\* order of the table numbers
TableOrder(d) == SelectSeq([k \in 1..Outside |-> k], LAMBDA t : t \in DOMAIN d)

Dialects == {"mysql", "mariadb", "oracle", "mssql", "postgresql", "sqlite"}

\* the maps table -> referenced tables over the tables T with at most n edges
FKMaps(T, n) ==
    { [t \in T |-> { e[2] : e \in { d \in E : d[1] = t } }] :
        E \in { S \in SUBSET (T \X (T \cup {Outside})) : Cardinality(S) <= n } }

(* ----------------------- analyze_table_dependencies -------------------- *)
\* the bug "the test ref_table != table_name is missing"
AnalyzeTableDependencies_KeepSelf(f) ==
    [t \in DOMAIN f |-> { r \in f[t] : r \in DOMAIN f }]

AnalyzeTableDependencies(f) ==
    [t \in DOMAIN f |-> { r \in f[t] : r \in DOMAIN f /\ r # t }]

(* --------------------------- topological sort -------------------------- *)
\* the bug "in_degree[table] += 1": the counter of a table counts the tables
\* it depends on
InDegree_OwnDependencies(deps) ==
    [t \in DOMAIN deps |-> Cardinality(deps[t] \cap DOMAIN deps)]

\* in_degree[dep] += 1 for every table and every dep of it that is a key
InDegree(deps) ==
    [t \in DOMAIN deps |-> Cardinality({ a \in DOMAIN deps : t \in deps[a] })]

\* queue = [table for table, degree in in_degree.items() if degree == 0]
ZeroDegree(indeg) == SelectSeq(TableOrder(indeg), LAMBDA t : indeg[t] = 0)

\* the for loop of the while body, from the k-th table of the dict on:
\* returns the in_degree and the queue after the loop
RECURSIVE UpdateInDegree(_, _, _, _, _)
UpdateInDegree(deps, current, k, indeg, q) ==
    IF k > Len(TableOrder(deps)) THEN [in_degree |-> indeg, queue |-> q]
    ELSE LET table == TableOrder(deps)[k] IN
         IF current \in deps[table]
         THEN LET d == [indeg EXCEPT ![table] = @ - 1] IN
              UpdateInDegree(deps, current, k + 1, d,
                             IF d[table] = 0 THEN Append(q, table) ELSE q)
         ELSE UpdateInDegree(deps, current, k + 1, indeg, q)

\* the bug "remaining = set(dependencies.keys())"
Remaining_NotSubtracted(deps, res) == DOMAIN deps

\* remaining = set(dependencies.keys()) - set(result)
Remaining(deps, res) == DOMAIN deps \ Range(res)

SortInit ==
    /\ pc = "sort_init"
    /\ in_degree' = InDegree(dependencies)
    /\ queue' = ZeroDegree(in_degree')
    /\ result' = << >>
    /\ pc' = "sort_loop"
    /\ UNCHANGED << genVars, previous_result, sideVars, dependencies, sorted_tables, inputVars, runVars >>

SortStep ==
    /\ pc = "sort_loop"
    /\ queue # << >>
    /\ LET current == Head(queue)
           upd == UpdateInDegree(dependencies, current, 1, in_degree, Tail(queue))
       IN /\ result' = Append(result, current)
          /\ in_degree' = upd.in_degree
          /\ queue' = upd.queue
    /\ UNCHANGED << genVars, previous_result, sideVars, dependencies, sorted_tables, pc, inputVars, runVars >>

\* result.extend(remaining): the iteration order of a set is not specified
SortFinish ==
    /\ pc = "sort_loop"
    /\ queue = << >>
    /\ \E rest \in Orderings(Remaining(dependencies, result)) :
          /\ result' = result \o rest
          /\ sorted_tables' = result'
    /\ pc' = "sorted"
    /\ UNCHANGED << genVars, previous_result, sideVars, dependencies, in_degree, queue, inputVars, runVars >>

(* ------------------------------ sort alone ----------------------------- *)
\* the sort called on an arbitrary dependency map (self references and
\* names outside the map included)
SortInitState ==
    /\ db_type = "sqlite"
    /\ drop_existing = FALSE
    /\ fks \in FKMaps(Tables, MaxFKs)
    /\ indexes = [t \in Tables |-> {}]
    /\ dbTables = {}
    /\ dbIndexes = [t \in Tables |-> {}]
    /\ dependencies = fks
    /\ in_degree = [t \in Tables |-> 0]
    /\ queue = << >>
    /\ result = << >>
    /\ sorted_tables = << >>
    /\ pc = "sort_init"
    /\ pos = 0
    /\ created_tables = << >>
    /\ failed_tables = << >>
    /\ index_created_count = 0
    /\ index_failed_count = 0
    /\ log = << >>
    /\ faults = 0
    /\ exc = FALSE
    /\ ret = "none"
    /\ engine = TRUE
    /\ GeneratorIdle
    /\ previous_result = << >>

SortNext == SortInit \/ SortStep \/ SortFinish

SortSpec == SortInitState /\ [][SortNext]_vars

\* the sort is invoked once more on the same map (a later run of the tool):
\* the value the first invocation returned is kept for comparison
SortAgain ==
    /\ pc = "sorted"
    /\ previous_result = << >>
    /\ previous_result' = sorted_tables
    /\ pc' = "sort_init"
    /\ UNCHANGED << genVars, sideVars, sortVars, inputVars, runVars >>

SortTwiceNext == SortNext \/ SortAgain

SortTwiceSpec == SortInitState /\ [][SortTwiceNext]_vars

(* --------------------------- the two sorts ------------------------------ *)
\* the generator's topological_sort next to the importer's
\* topological_sort_tables, on the same map and statement by statement; the
\* two functions have the same text, generator_sort holds the locals of the
\* generator's
SortBothInit ==
    /\ pc = "sort_init"
    /\ in_degree' = InDegree(dependencies)
    /\ queue' = ZeroDegree(in_degree')
    /\ result' = << >>
    /\ generator_sort' = [in_degree |-> in_degree', queue |-> ZeroDegree(in_degree'),
                          result |-> << >>]
    /\ pc' = "sort_loop"
    /\ UNCHANGED << genVars, differences, previous_result, dependencies, sorted_tables,
                    inputVars, runVars >>

\* one iteration of the while loop of each function whose queue is not empty
SortBothStep ==
    /\ pc = "sort_loop"
    /\ queue # << >> \/ generator_sort.queue # << >>
    /\ IF queue # << >>
       THEN LET upd == UpdateInDegree(dependencies, Head(queue), 1, in_degree, Tail(queue))
            IN /\ result' = Append(result, Head(queue))
               /\ in_degree' = upd.in_degree
               /\ queue' = upd.queue
       ELSE UNCHANGED << result, in_degree, queue >>
    /\ generator_sort' =
          IF generator_sort.queue # << >>
          THEN LET g == generator_sort
                   upd == UpdateInDegree(dependencies, Head(g.queue), 1, g.in_degree,
                                         Tail(g.queue))
               IN [in_degree |-> upd.in_degree, queue |-> upd.queue,
                   result |-> Append(g.result, Head(g.queue))]
          ELSE generator_sort
    /\ UNCHANGED << genVars, differences, previous_result, dependencies, sorted_tables,
                    pc, inputVars, runVars >>

\* result.extend(remaining) in both functions: each iterates a set of its
\* own, in an order that is not specified
SortBothFinish ==
    /\ pc = "sort_loop"
    /\ queue = << >>
    /\ generator_sort.queue = << >>
    /\ \E rest \in Orderings(Remaining(dependencies, result)),
          other \in Orderings(Remaining(dependencies, generator_sort.result)) :
          /\ result' = result \o rest
          /\ sorted_tables' = result'
          /\ generator_sort' = [generator_sort EXCEPT !.result = @ \o other]
    /\ pc' = "sorted"
    /\ UNCHANGED << genVars, differences, previous_result, dependencies, in_degree,
                    queue, inputVars, runVars >>

SideBySideNext == SortBothInit \/ SortBothStep \/ SortBothFinish

SideBySideSpec == SortInitState /\ [][SideBySideNext]_vars

(* ---------------------- session-level statements ----------------------- *)
\* a statement is modelled by the session setting it assigns and the value
Stmt(setting, value) == << setting, value >>
SettingOf(stmt) == stmt[1]

IsMysqlFamily(d) == d \in {"mysql", "mariadb"}
IsOracleFamily(d) == d = "oracle"
IsMssqlFamily(d) == d = "mssql"
IsPostgresqlFamily(d) == d = "postgresql"

\* the bug "only the mysql family is toggled"
ToggleDialects_MysqlFamilyOnly == {"mysql", "mariadb"}

\* the bug "postgresql is toggled as well"
ToggleDialects_WithPostgresql == {"mysql", "mariadb", "oracle", "mssql", "postgresql"}

\* the dialects for which foreign_key_disabled toggles the integrity check
ToggleDialects == {"mysql", "mariadb", "oracle", "mssql"}

\* statements executed by disable_foreign_key_checks
DisableStatements(d) ==
    IF IsMysqlFamily(d) THEN << Stmt("FOREIGN_KEY_CHECKS", "0") >>
    ELSE IF IsOracleFamily(d) THEN << Stmt("CONSTRAINT_CHECK", "FALSE") >>
    ELSE IF IsMssqlFamily(d) THEN << Stmt("ALL TABLE CONSTRAINTS", "NOCHECK") >>
    ELSE << >>

\* statements executed by enable_foreign_key_checks
EnableStatements(d) ==
    IF IsMysqlFamily(d) THEN << Stmt("FOREIGN_KEY_CHECKS", "1") >>
    ELSE IF IsOracleFamily(d) THEN << Stmt("CONSTRAINT_CHECK", "TRUE") >>
    ELSE IF IsMssqlFamily(d) THEN << Stmt("ALL TABLE CONSTRAINTS", "CHECK") >>
    ELSE << >>

\* session_vars of set_database_session_variables
SessionVars(d) ==
    IF IsMysqlFamily(d) THEN
        << Stmt("FOREIGN_KEY_CHECKS", "0"), Stmt("UNIQUE_CHECKS", "0"),
           Stmt("AUTOCOMMIT", "0"), Stmt("sql_mode", "NO_AUTO_VALUE_ON_ZERO"),
           Stmt("innodb_lock_wait_timeout", "300") >>
    ELSE IF IsOracleFamily(d) THEN
        << Stmt("CONSTRAINT_CHECK", "FALSE"), Stmt("DDL_LOCK_TIMEOUT", "300") >>
    ELSE IF IsMssqlFamily(d) THEN
        << Stmt("ARITHABORT", "OFF"), Stmt("ANSI_WARNINGS", "OFF") >>
    ELSE IF IsPostgresqlFamily(d) THEN
        << Stmt("synchronous_commit", "off"), Stmt("checkpoint_segments", "32") >>
    ELSE << >>

\* reset_vars of reset_database_session_variables
ResetVars(d) ==
    IF IsMysqlFamily(d) THEN
        << Stmt("FOREIGN_KEY_CHECKS", "1"), Stmt("UNIQUE_CHECKS", "1"),
           Stmt("AUTOCOMMIT", "1") >>
    ELSE IF IsOracleFamily(d) THEN << Stmt("CONSTRAINT_CHECK", "TRUE") >>
    ELSE IF IsMssqlFamily(d) THEN
        << Stmt("ARITHABORT", "ON"), Stmt("ANSI_WARNINGS", "ON") >>
    ELSE IF IsPostgresqlFamily(d) THEN << Stmt("synchronous_commit", "on") >>
    ELSE << >>

(* ------------------------------- the log ------------------------------- *)
\* one operation issued by the run: op is the operation, t the table and idx
\* the index it is about (0 when none), stmt the session statement, carried
\* the indexes a create-table carries, outcome one of ok, failed, skipped
\* (for the existence check of an index: present, absent, failed)
Entry(op, t, idx, stmt, carried, outcome) ==
    [op |-> op, t |-> t, idx |-> idx, stmt |-> stmt, carried |-> carried,
     outcome |-> outcome]

NoStmt == << >>

FailedCount(entries) ==
    Cardinality({ k \in DOMAIN entries : entries[k].outcome = "failed" })

\* conn.execute of each statement of the list; the ones in rejected raise
ExecEntries(stmts, rejected) ==
    [k \in DOMAIN stmts |->
        Entry("execute", 0, 0, stmts[k], {},
              IF k \in rejected THEN "failed" ELSE "ok")]

\* the bug "one try around the loop over the statements": the first rejected
\* statement ends the function
TolerantCall_StopsAtRejection(fn, stmts, n) ==
    { << Entry(fn, 0, 0, NoStmt, {}, "ok") >> \o ExecEntries(stmts, {}) }
    \cup (IF n > 0
          THEN { << Entry(fn, 0, 0, NoStmt, {}, "failed") >> }
               \cup { << Entry(fn, 0, 0, NoStmt, {}, "ok") >>
                      \o ExecEntries(SubSeq(stmts, 1, k), {k}) : k \in DOMAIN stmts }
          ELSE {})

\* what a session function that wraps every statement in its own try can
\* log with at most n failures: engine.connect() fails, or any of the
\* statements is rejected and the next ones are executed all the same
TolerantCall(fn, stmts, n) ==
    { << Entry(fn, 0, 0, NoStmt, {}, "ok") >> \o ExecEntries(stmts, R) :
        R \in { S \in SUBSET DOMAIN stmts : Cardinality(S) <= n } }
    \cup (IF n > 0 THEN { << Entry(fn, 0, 0, NoStmt, {}, "failed") >> } ELSE {})

\* what a session function with one try around all its statements can log:
\* the first rejected statement ends the function
GuardedCall(fn, stmts, n) ==
    { << Entry(fn, 0, 0, NoStmt, {}, "ok") >> \o ExecEntries(stmts, {}) }
    \cup (IF n > 0
          THEN { << Entry(fn, 0, 0, NoStmt, {}, "failed") >> }
               \cup { << Entry(fn, 0, 0, NoStmt, {}, "ok") >>
                      \o ExecEntries(SubSeq(stmts, 1, k), {k}) : k \in DOMAIN stmts }
          ELSE {})

(* ------------------------- create_tables_ordered ----------------------- *)
Budget == MaxFaults - faults

\* the bug "the exception is swallowed": the run goes on with phase 1
OnRaise_Swallowed == "phase1"

\* the bug "reset outside of finally": an exception skips the reset
OnRaise_NoFinally == "exit_ctx"

\* where an exception raised in the try body continues: the finally clause
OnRaise == "finally"

AnalyzeDependencies ==
    /\ pc = "start"
    /\ dependencies' = AnalyzeTableDependencies(fks)
    /\ pc' = "sort_init"
    /\ UNCHANGED << genVars, previous_result, sideVars, in_degree, queue, result, sorted_tables, inputVars, runVars >>

\* with self.foreign_key_disabled(): the part before the yield
EnterForeignKeyDisabled ==
    /\ pc = "sorted"
    /\ IF db_type \in ToggleDialects
       THEN \E es \in GuardedCall("disable_foreign_key_checks",
                                  DisableStatements(db_type), Budget) :
               /\ log' = log \o es
               /\ faults' = faults + FailedCount(es)
       ELSE UNCHANGED << log, faults >>
    /\ pc' = "set_vars"
    /\ UNCHANGED << genVars, previous_result, sideVars, sortVars, inputVars, dbTables, dbIndexes, pos, created_tables,
                    failed_tables, index_created_count, index_failed_count,
                    exc, ret >>

SetDatabaseSessionVariables ==
    /\ pc = "set_vars"
    /\ \E es \in TolerantCall("set_database_session_variables",
                              SessionVars(db_type), Budget) :
          /\ log' = log \o es
          /\ faults' = faults + FailedCount(es)
    /\ pc' = IF drop_existing THEN "drop" ELSE "phase1"
    /\ pos' = 1
    /\ UNCHANGED << genVars, previous_result, sideVars, sortVars, inputVars, dbTables, dbIndexes, created_tables,
                    failed_tables, index_created_count, index_failed_count,
                    exc, ret >>

\* _drop_table_indexes: the statements executed for the indexes the
\* inspector lists; no dialect branch matches sqlite, so nothing is executed
DropIndexEntries(d, t, existing, failing) ==
    IF d \in {"mysql", "mariadb", "oracle", "mssql", "postgresql"}
    THEN LET order == SelectSeq([k \in 1..MaxIdx + 1 |-> k], LAMBDA x : x \in existing)
         IN [k \in DOMAIN order |->
                Entry("drop_index", t, order[k], NoStmt, {},
                      IF order[k] \in failing THEN "failed" ELSE "ok")]
    ELSE << >>

DroppedIndexes(entries) ==
    { entries[k].idx : k \in { j \in DOMAIN entries : entries[j].outcome = "ok" } }

\* one iteration of the loop over reversed(sorted_tables)
DropTable ==
    /\ pc = "drop"
    /\ LET t == Reverse(sorted_tables)[pos]
           last == pos = Len(sorted_tables)
       IN \E failing \in SUBSET dbIndexes[t], raises \in BOOLEAN :
            LET es == IF t \in dbTables
                      THEN DropIndexEntries(db_type, t, dbIndexes[t], failing)
                      ELSE << >>
                outcome == IF t \notin dbTables THEN "skipped"
                           ELSE IF raises THEN "failed" ELSE "ok"
                all == es \o << Entry("drop_table", t, 0, NoStmt, {}, outcome) >>
            IN /\ raises => t \in dbTables
               /\ failing # {} => Len(es) > 0
               /\ FailedCount(all) <= Budget
               /\ log' = log \o all
               /\ faults' = faults + FailedCount(all)
               /\ dbTables' = IF outcome = "ok" THEN dbTables \ {t} ELSE dbTables
               /\ dbIndexes' = [dbIndexes EXCEPT ![t] =
                                   IF outcome = "ok" THEN {} ELSE @ \ DroppedIndexes(es)]
               /\ exc' = (outcome = "failed")
               /\ pc' = IF outcome = "failed" THEN OnRaise
                        ELSE IF last THEN "phase1" ELSE "drop"
               /\ pos' = IF outcome = "failed" \/ last THEN 1 ELSE pos + 1
    /\ UNCHANGED << genVars, previous_result, sideVars, sortVars, inputVars, created_tables, failed_tables,
                    index_created_count, index_failed_count, ret >>

\* the bug "table.indexes is saved but not cleared"
TemporarilyRemoveIndexes_NotCleared(ix, t) ==
    [original_indexes |-> ix[t], indexes |-> ix]

\* _temporarily_remove_indexes
TemporarilyRemoveIndexes(ix, t) ==
    [original_indexes |-> ix[t], indexes |-> [ix EXCEPT ![t] = {}]]

\* _restore_indexes
RestoreIndexes(ix, t, original_indexes) ==
    IF original_indexes # {} THEN [ix EXCEPT ![t] = @ \cup original_indexes] ELSE ix

\* the bug "created_tables.append(table_name) before table.create"
Phase1Record_AppendFirst(created, failed, t, raised) ==
    [created_tables |-> Append(created, t),
     failed_tables |-> IF raised THEN Append(failed, t) ELSE failed]

\* the bookkeeping of one phase-1 iteration: created_tables.append after a
\* create that returned, failed_tables.append in the except clause
Phase1Record(created, failed, t, raised) ==
    IF raised
    THEN [created_tables |-> created, failed_tables |-> Append(failed, t)]
    ELSE [created_tables |-> Append(created, t), failed_tables |-> failed]

\* the bug "checkfirst is not passed": creating an existing table raises
CreateOutcome_NoCheckFirst(exists, raises) ==
    IF exists \/ raises THEN "failed" ELSE "ok"

\* table.create(bind=self.engine, checkfirst=True): nothing is issued for a
\* table that exists
CreateOutcome(exists, raises) ==
    IF exists THEN "skipped" ELSE IF raises THEN "failed" ELSE "ok"

\* one iteration of the phase-1 loop over sorted_tables
CreateTable ==
    /\ pc = "phase1"
    /\ LET t == sorted_tables[pos]
           removed == TemporarilyRemoveIndexes(indexes, t)
       IN \E raises \in BOOLEAN :
            LET outcome == CreateOutcome(t \in dbTables, raises)
            IN /\ raises => (t \notin dbTables /\ Budget > 0)
               /\ log' = Append(log, Entry("create_table", t, 0, NoStmt,
                                           removed.indexes[t], outcome))
               /\ faults' = faults + (IF raises THEN 1 ELSE 0)
               /\ dbTables' = IF outcome = "ok" THEN dbTables \cup {t} ELSE dbTables
               /\ LET rec == Phase1Record(created_tables, failed_tables, t,
                                          outcome = "failed")
                  IN /\ created_tables' = rec.created_tables
                     /\ failed_tables' = rec.failed_tables
               /\ indexes' = IF outcome = "failed" THEN removed.indexes
                             ELSE RestoreIndexes(removed.indexes, t,
                                                 removed.original_indexes)
    /\ pc' = IF pos = Len(sorted_tables) THEN "commit" ELSE "phase1"
    /\ pos' = IF pos = Len(sorted_tables) THEN 1 ELSE pos + 1
    /\ UNCHANGED << genVars, previous_result, sideVars, sortVars, db_type, drop_existing, fks, engine, dbIndexes,
                    index_created_count, index_failed_count, exc, ret >>

\* self.session.commit() between the phases
CommitStructure ==
    /\ pc = "commit"
    /\ \E raises \in BOOLEAN :
          /\ raises => Budget > 0
          /\ log' = Append(log, Entry("commit", 0, 0, NoStmt, {},
                                      IF raises THEN "failed" ELSE "ok"))
          /\ faults' = faults + (IF raises THEN 1 ELSE 0)
          /\ exc' = raises
          /\ pc' = IF raises THEN OnRaise
                   ELSE IF created_tables # << >> THEN "phase2" ELSE "return"
    /\ pos' = 1
    /\ UNCHANGED << genVars, previous_result, sideVars, sortVars, inputVars, dbTables, dbIndexes, created_tables,
                    failed_tables, index_created_count, index_failed_count, ret >>

\* the bug "the existence check is not consulted"
IndexExists_AlwaysAbsent(existing, x, blind) == "absent"

\* _index_exists: the inspector lists the indexes of the table, or raises
\* (the indexes in blind) and the function answers False
IndexExists(existing, x, blind) ==
    IF x \in blind THEN "failed"
    ELSE IF x \in existing THEN "present" ELSE "absent"

\* the loop over table.indexes from the k-th index on: the existence check
\* of each index and, unless it answers present, index.create, which the
\* target rejects for an index it holds already
RECURSIVE IndexEntries(_, _, _, _, _, _)
IndexEntries(t, order, k, existing, failing, blind) ==
    IF k > Len(order) THEN << >>
    ELSE LET x == order[k]
             answer == IndexExists(existing, x, blind)
             check == Entry("index_exists", t, x, NoStmt, {}, answer)
             create == Entry("create_index", t, x, NoStmt, {},
                             IF x \in failing \/ x \in existing THEN "failed" ELSE "ok")
         IN (IF answer = "present" THEN << check >> ELSE << check, create >>)
            \o IndexEntries(t, order, k + 1, existing, failing, blind)

\* the indexes that the entries report as created
CreatedIndexes(entries) ==
    { entries[k].idx : k \in { j \in DOMAIN entries :
                                  /\ entries[j].op = "create_index"
                                  /\ entries[j].outcome = "ok" } }

\* the bug "no try around index.create": the first failure ends the loop and
\* the exception reaches the caller
CreateTableIndexes_Aborting(t, order, existing, failing, blind) ==
    LET all == IndexEntries(t, order, 1, existing, failing, blind)
        bad == { k \in DOMAIN all : all[k].op = "create_index" /\ all[k].outcome = "failed" }
        upto == IF bad = {} THEN Len(all)
                ELSE CHOOSE k \in bad : \A j \in bad : k <= j
        done == SubSeq(all, 1, upto)
    IN [entries |-> done,
        index_count |-> Cardinality(CreatedIndexes(done)),
        raised |-> bad # {}]

\* _create_table_indexes: the indexes of the table are visited in the order
\* the set table.indexes iterates (order), the creations in failing raise,
\* the existence checks in blind raise; returns the entries logged,
\* index_count and whether the call raised
CreateTableIndexes(t, order, existing, failing, blind) ==
    LET all == IndexEntries(t, order, 1, existing, failing, blind)
    IN [entries |-> all,
        index_count |-> Cardinality(CreatedIndexes(all)),
        raised |-> FALSE]

\* one iteration of the phase-2 loop over created_tables; the indexes of
\* the set table.indexes are numbered in the order the set iterates
CreateIndexes ==
    /\ pc = "phase2"
    /\ LET t == created_tables[pos]
           order == SelectSeq([k \in 1..MaxIdx + 1 |-> k], LAMBDA x : x \in indexes[t])
       IN \E failing \in SUBSET (indexes[t] \ dbIndexes[t]), blind \in SUBSET indexes[t] :
            LET call == CreateTableIndexes(t, order, dbIndexes[t], failing, blind)
            IN /\ Cardinality(failing) + Cardinality(blind) <= Budget
               /\ log' = log \o call.entries
               /\ faults' = faults + Cardinality(failing) + Cardinality(blind)
               /\ dbIndexes' = [dbIndexes EXCEPT ![t] = @ \cup CreatedIndexes(call.entries)]
               /\ IF call.raised
                  THEN /\ index_failed_count' = index_failed_count + 1
                       /\ UNCHANGED index_created_count
                  ELSE /\ index_created_count' = index_created_count + call.index_count
                       /\ UNCHANGED index_failed_count
    /\ pc' = IF pos = Len(created_tables) THEN "return" ELSE "phase2"
    /\ pos' = IF pos = Len(created_tables) THEN 1 ELSE pos + 1
    /\ UNCHANGED << genVars, previous_result, sideVars, sortVars, inputVars, dbTables, created_tables, failed_tables,
                    exc, ret >>

\* the bug "return True"
ReturnValue_AlwaysTrue(failed) == "True"

\* the value of the return statement of the try body
ReturnValue(failed) == IF Len(failed) = 0 THEN "True" ELSE "False"

\* return len(failed_tables) == 0
Return ==
    /\ pc = "return"
    /\ ret' = ReturnValue(failed_tables)
    /\ pc' = "finally"
    /\ UNCHANGED << genVars, previous_result, sideVars, sortVars, inputVars, dbTables, dbIndexes, pos, created_tables,
                    failed_tables, index_created_count, index_failed_count,
                    log, faults, exc >>

\* finally: self.reset_database_session_variables()
ResetDatabaseSessionVariables ==
    /\ pc = "finally"
    /\ \E es \in TolerantCall("reset_database_session_variables",
                              ResetVars(db_type), Budget) :
          /\ log' = log \o es
          /\ faults' = faults + FailedCount(es)
    /\ pc' = "exit_ctx"
    /\ UNCHANGED << genVars, previous_result, sideVars, sortVars, inputVars, dbTables, dbIndexes, pos, created_tables,
                    failed_tables, index_created_count, index_failed_count,
                    exc, ret >>

\* foreign_key_disabled after the yield, then the except of the outer try
ExitForeignKeyDisabled ==
    /\ pc = "exit_ctx"
    /\ IF db_type \in ToggleDialects
       THEN \E es \in GuardedCall("enable_foreign_key_checks",
                                  EnableStatements(db_type), Budget) :
               /\ log' = log \o es
               /\ faults' = faults + FailedCount(es)
       ELSE UNCHANGED << log, faults >>
    /\ ret' = IF exc THEN "False" ELSE ret
    /\ exc' = FALSE
    /\ pc' = "done"
    /\ UNCHANGED << genVars, previous_result, sideVars, sortVars, inputVars, dbTables, dbIndexes, pos, created_tables,
                    failed_tables, index_created_count, index_failed_count >>

\* the descriptors' index sets: a table defines no index or the indexes
\* 1..MaxIdx
IndexMaps == { [t \in RunTables |-> 1..n[t]] : n \in [RunTables -> {0, MaxIdx}] }

\* the importer after connect() and load_models_from_file(), before a run
Loaded ==
    /\ db_type \in Dialects
    /\ drop_existing \in BOOLEAN
    \* foreign keys between distinct tables of the working set
    /\ fks \in { f \in FKMaps(RunTables, MaxRunFKs) : f = AnalyzeTableDependencies(f) }
    /\ indexes \in IndexMaps
    \* the target is empty, or holds every table with its indexes
    /\ \E populated \in BOOLEAN :
          /\ dbTables = IF populated THEN RunTables ELSE {}
          /\ dbIndexes = IF populated THEN indexes ELSE [t \in RunTables |-> {}]
    /\ dependencies = [t \in RunTables |-> {}]
    /\ in_degree = [t \in RunTables |-> 0]
    /\ queue = << >>
    /\ result = << >>
    /\ sorted_tables = << >>
    /\ pos = 0
    /\ created_tables = << >>
    /\ failed_tables = << >>
    /\ index_created_count = 0
    /\ index_failed_count = 0
    /\ log = << >>
    /\ faults = 0
    /\ exc = FALSE
    /\ ret = "none"
    /\ GeneratorIdle
    /\ previous_result = << >>

\* a call of create_tables_ordered on a connected importer
Init ==
    /\ Loaded
    /\ engine = TRUE
    /\ pc = "start"

Next ==
    \/ AnalyzeDependencies
    \/ SortInit
    \/ SortStep
    \/ SortFinish
    \/ EnterForeignKeyDisabled
    \/ SetDatabaseSessionVariables
    \/ DropTable
    \/ CreateTable
    \/ CommitStructure
    \/ CreateIndexes
    \/ Return
    \/ ResetDatabaseSessionVariables
    \/ ExitForeignKeyDisabled

Spec == Init /\ [][Next]_vars

(* ------------------- analyze_table_dependencies alone ------------------ *)
\* the working sets: the non-empty sets of tables
WorkingSets == SUBSET Tables \ {{}}

\* the analysis and then the sort, on the tables of any working set whose
\* foreign keys name tables of the set, themselves or a table outside
AnalyzeInit ==
    /\ db_type = "sqlite"
    /\ drop_existing = FALSE
    /\ \E T \in WorkingSets :
          /\ fks \in FKMaps(T, MaxFKs)
          /\ indexes = [t \in T |-> {}]
          /\ dbIndexes = [t \in T |-> {}]
    /\ dbTables = {}
    /\ dependencies = << >>
    /\ in_degree = << >>
    /\ queue = << >>
    /\ result = << >>
    /\ sorted_tables = << >>
    /\ pc = "start"
    /\ pos = 0
    /\ created_tables = << >>
    /\ failed_tables = << >>
    /\ index_created_count = 0
    /\ index_failed_count = 0
    /\ log = << >>
    /\ faults = 0
    /\ exc = FALSE
    /\ ret = "none"
    /\ engine = TRUE
    /\ GeneratorIdle
    /\ previous_result = << >>

AnalyzeNext == AnalyzeDependencies \/ SortInit \/ SortStep \/ SortFinish

AnalyzeSpec == AnalyzeInit /\ [][AnalyzeNext]_vars

(* ------------------------- create_tables_ordered twice ----------------- *)
\* what a finished run leaves for a later one to be compared with: its
\* result, the target, and the failures injected up to its end
RunSummary ==
    [ret |-> ret, dbTables |-> dbTables, dbIndexes |-> dbIndexes, faults |-> faults]

\* create_tables_ordered is called once more on the same importer, without
\* drop_existing: the descriptors (table.indexes) and the target are as the
\* first call left them, the locals start afresh
RunAgain ==
    /\ pc = "done"
    /\ previous_result = << >>
    /\ previous_result' = << RunSummary >>
    /\ drop_existing' = FALSE
    /\ dependencies' = [t \in RunTables |-> {}]
    /\ in_degree' = [t \in RunTables |-> 0]
    /\ queue' = << >>
    /\ result' = << >>
    /\ sorted_tables' = << >>
    /\ pos' = 0
    /\ created_tables' = << >>
    /\ failed_tables' = << >>
    /\ index_created_count' = 0
    /\ index_failed_count' = 0
    /\ log' = << >>
    /\ exc' = FALSE
    /\ ret' = "none"
    /\ pc' = "start"
    /\ UNCHANGED << genVars, sideVars, db_type, fks, indexes, engine, dbTables,
                    dbIndexes, faults >>

RerunNext == Next \/ RunAgain

RerunSpec == Init /\ [][RerunNext]_vars

(* ------------------------ check_table_differences --------------------- *)
\* the bug "every existing table is an orphan"
TableDifferences_AllOrphaned(model_tables, existing_tables) ==
    [new_tables |-> SelectSeq(model_tables, LAMBDA t : t \notin Range(existing_tables)),
     existing_tables |-> SelectSeq(model_tables, LAMBDA t : t \in Range(existing_tables)),
     orphaned_tables |-> existing_tables]

\* the dict built by the two loops of check_table_differences
TableDifferences(model_tables, existing_tables) ==
    [new_tables |-> SelectSeq(model_tables, LAMBDA t : t \notin Range(existing_tables)),
     existing_tables |-> SelectSeq(model_tables, LAMBDA t : t \in Range(existing_tables)),
     orphaned_tables |-> SelectSeq(existing_tables, LAMBDA t : t \notin Range(model_tables))]

\* get_existing_tables: the names in the order the inspector lists them, or
\* the empty list when the inspector raises
GetExistingTables(listed, raises) == IF raises THEN << >> ELSE listed

\* check_table_differences on an importer whose models are loaded
CheckTableDifferences ==
    /\ pc = "check_table_differences"
    /\ \E listed \in Orderings(dbTables), raises \in BOOLEAN :
          /\ raises => Budget > 0
          /\ log' = Append(log, Entry("get_existing_tables", 0, 0, NoStmt, {},
                                      IF raises THEN "failed" ELSE "ok"))
          /\ faults' = faults + (IF raises THEN 1 ELSE 0)
          /\ differences' = TableDifferences(TableOrder(fks),
                                             GetExistingTables(listed, raises))
    /\ pc' = "done"
    /\ UNCHANGED << genVars, previous_result, generator_sort, sortVars, inputVars,
                    dbTables, dbIndexes, pos, created_tables, failed_tables,
                    index_created_count, index_failed_count, exc, ret >>

\* any set of model tables against any set of tables on the target
DifferencesInit ==
    /\ db_type = "sqlite"
    /\ drop_existing = FALSE
    /\ \E T \in SUBSET Tables :
          /\ fks = [t \in T |-> {}]
          /\ indexes = [t \in T |-> {}]
          /\ dbIndexes = [t \in T |-> {}]
    /\ dbTables \in SUBSET (Tables \cup {Outside})
    /\ dependencies = << >>
    /\ in_degree = << >>
    /\ queue = << >>
    /\ result = << >>
    /\ sorted_tables = << >>
    /\ pc = "check_table_differences"
    /\ pos = 0
    /\ created_tables = << >>
    /\ failed_tables = << >>
    /\ index_created_count = 0
    /\ index_failed_count = 0
    /\ log = << >>
    /\ faults = 0
    /\ exc = FALSE
    /\ ret = "none"
    /\ engine = TRUE
    /\ GeneratorIdle
    /\ previous_result = << >>

DifferencesNext == CheckTableDifferences

DifferencesSpec == DifferencesInit /\ [][DifferencesNext]_vars

(* ------------------------------ create_tables -------------------------- *)
\* create_tables up to its call of create_tables_ordered, whose value it
\* returns: without an engine it returns False; get_existing_tables, called
\* by check_table_differences, catches the failure of the inspector and
\* returns the empty list, and the differences are only logged
CreateTables ==
    /\ pc = "create_tables"
    /\ IF ~engine
       THEN /\ ret' = "False"
            /\ pc' = "done"
            /\ UNCHANGED << log, faults >>
       ELSE /\ \E raises \in BOOLEAN :
                 /\ raises => Budget > 0
                 /\ log' = Append(log, Entry("get_existing_tables", 0, 0, NoStmt, {},
                                             IF raises THEN "failed" ELSE "ok"))
                 /\ faults' = faults + (IF raises THEN 1 ELSE 0)
            /\ pc' = "start"
            /\ UNCHANGED ret
    /\ UNCHANGED << genVars, previous_result, sideVars, sortVars, inputVars, dbTables, dbIndexes, pos,
                    created_tables, failed_tables, index_created_count,
                    index_failed_count, exc >>

\* a call of create_tables, on an importer that may never have connected
CreateTablesInit ==
    /\ Loaded
    /\ engine \in BOOLEAN
    /\ pc = "create_tables"

CreateTablesNext == CreateTables \/ Next

CreateTablesSpec == CreateTablesInit /\ [][CreateTablesNext]_vars

(* ------------------------------- strings ------------------------------- *)
\* a Python str is the sequence of its characters
UpperLetters == << "A", "B", "C", "D", "E", "F", "G", "H", "I", "J", "K", "L", "M", "N", "O", "P", "Q", "R", "S", "T", "U", "V", "W", "X", "Y", "Z" >>
LowerLetters == << "a", "b", "c", "d", "e", "f", "g", "h", "i", "j", "k", "l", "m", "n", "o", "p", "q", "r", "s", "t", "u", "v", "w", "x", "y", "z" >>
Digits == << "0", "1", "2", "3", "4", "5", "6", "7", "8", "9" >>

\* str.upper() and str.lower()
UpperChar(c) ==
    IF c \in Range(LowerLetters) THEN UpperLetters[IndexOf(LowerLetters, c)] ELSE c
LowerChar(c) ==
    IF c \in Range(UpperLetters) THEN LowerLetters[IndexOf(UpperLetters, c)] ELSE c
Upper(s) == [k \in DOMAIN s |-> UpperChar(s[k])]
Lower(s) == [k \in DOMAIN s |-> LowerChar(s[k])]

\* p occurs in s at position i
OccursAt(p, s, i) ==
    /\ i >= 1
    /\ i + Len(p) - 1 <= Len(s)
    /\ \A k \in 1..Len(p) : s[i + k - 1] = p[k]

\* p in s
Contains(s, p) == \E i \in 1..(Len(s) + 1) : OccursAt(p, s, i)

\* any(keyword in s for keyword in keywords)
ContainsAny(s, keywords) == \E k \in DOMAIN keywords : Contains(s, keywords[k])

\* the longest run of digits of s that starts at position i: what \d+ takes
RECURSIVE DigitRun(_, _)
DigitRun(s, i) ==
    IF i <= Len(s) /\ s[i] \in Range(Digits)
    THEN << s[i] >> \o DigitRun(s, i + 1)
    ELSE << >>

\* the longest run of blanks of s that starts at position i: what \s* takes
RECURSIVE BlankRun(_, _)
BlankRun(s, i) ==
    IF i <= Len(s) /\ s[i] = " " THEN 1 + BlankRun(s, i + 1) ELSE 0

\* int(digits)
RECURSIVE ToInt(_)
ToInt(ds) ==
    IF ds = << >> THEN 0
    ELSE 10 * ToInt(SubSeq(ds, 1, Len(ds) - 1)) + (IndexOf(Digits, ds[Len(ds)]) - 1)

\* the match of the pattern  word\((\d+)\)  at position i of s: the digits of
\* the group, << >> when the pattern does not match there
LengthGroupAt(word, s, i) ==
    LET open == i + Len(word)
        ds == DigitRun(s, open + 1)
        close == open + 1 + Len(ds)
    IN IF /\ OccursAt(word, s, i)
          /\ open <= Len(s) /\ s[open] = "("
          /\ ds # << >>
          /\ close <= Len(s) /\ s[close] = ")"
       THEN ds ELSE << >>

\* re.search(r'word\((\d+)\)', s): group 1 of the leftmost match, << >> when
\* there is none
SearchLength(word, s) ==
    LET hits == { i \in 1..Len(s) : LengthGroupAt(word, s, i) # << >> }
    IN IF hits = {} THEN << >>
       ELSE LengthGroupAt(word, s, CHOOSE i \in hits : \A j \in hits : i <= j)

\* the match of  word\((\d+)(?:,\s*(\d+))?\)  at position i of s: the two
\* groups (the second << >> when absent), << >> when there is no match
PrecisionGroupsAt(word, s, i) ==
    LET open == i + Len(word)
        p == DigitRun(s, open + 1)
        after == open + 1 + Len(p)
        blanks == BlankRun(s, after + 1)
        sc == DigitRun(s, after + 1 + blanks)
        close == after + 1 + blanks + Len(sc)
    IN IF ~(/\ OccursAt(word, s, i)
            /\ open <= Len(s) /\ s[open] = "("
            /\ p # << >>
            /\ after <= Len(s))
       THEN << >>
       ELSE IF s[after] = ")" THEN << p, << >> >>
       ELSE IF /\ s[after] = ","
               /\ sc # << >>
               /\ close <= Len(s) /\ s[close] = ")"
            THEN << p, sc >>
       ELSE << >>

\* re.search(r'(?:NUMERIC|DECIMAL|NUMBER)\((\d+)(?:,\s*(\d+))?\)', s)
SearchPrecision(words, s) ==
    LET hits == { i \in 1..Len(s) :
                    \E w \in DOMAIN words : PrecisionGroupsAt(words[w], s, i) # << >> }
    IN IF hits = {} THEN << >>
       ELSE LET i == CHOOSE h \in hits : \A j \in hits : h <= j
                w == CHOOSE v \in DOMAIN words :
                        /\ PrecisionGroupsAt(words[v], s, i) # << >>
                        /\ \A u \in 1..(v - 1) : PrecisionGroupsAt(words[u], s, i) = << >>
            IN PrecisionGroupsAt(words[w], s, i)

(* --------------------------- type translation -------------------------- *)
\* cross_db_type_mappings, in the order of the dict: each key (as a list of
\* one keyword) and its value
CrossDbTypeMappings ==
    << << << << "I", "N", "T", "E", "G", "E", "R" >> >>, << "I", "n", "t", "e", "g", "e", "r" >> >>,
       << << << "B", "I", "G", "I", "N", "T" >> >>, << "B", "i", "g", "I", "n", "t", "e", "g", "e", "r" >> >>,
       << << << "S", "M", "A", "L", "L", "I", "N", "T" >> >>, << "S", "m", "a", "l", "l", "I", "n", "t", "e", "g", "e", "r" >> >>,
       << << << "V", "A", "R", "C", "H", "A", "R" >> >>, << "S", "t", "r", "i", "n", "g" >> >>,
       << << << "T", "E", "X", "T" >> >>, << "T", "e", "x", "t" >> >>,
       << << << "C", "L", "O", "B" >> >>, << "T", "e", "x", "t" >> >>,
       << << << "N", "V", "A", "R", "C", "H", "A", "R" >> >>, << "S", "t", "r", "i", "n", "g" >> >>,
       << << << "N", "T", "E", "X", "T" >> >>, << "T", "e", "x", "t" >> >>,
       << << << "C", "H", "A", "R" >> >>, << "S", "t", "r", "i", "n", "g" >> >>,
       << << << "N", "C", "H", "A", "R" >> >>, << "S", "t", "r", "i", "n", "g" >> >>,
       << << << "B", "O", "O", "L", "E", "A", "N" >> >>, << "B", "o", "o", "l", "e", "a", "n" >> >>,
       << << << "B", "I", "T" >> >>, << "B", "o", "o", "l", "e", "a", "n" >> >>,
       << << << "T", "I", "N", "Y", "I", "N", "T" >> >>, << "S", "m", "a", "l", "l", "I", "n", "t", "e", "g", "e", "r" >> >>,
       << << << "D", "A", "T", "E" >> >>, << "D", "a", "t", "e" >> >>,
       << << << "T", "I", "M", "E" >> >>, << "T", "i", "m", "e" >> >>,
       << << << "D", "A", "T", "E", "T", "I", "M", "E" >> >>, << "D", "a", "t", "e", "T", "i", "m", "e" >> >>,
       << << << "D", "A", "T", "E", "T", "I", "M", "E", "2" >> >>, << "D", "a", "t", "e", "T", "i", "m", "e" >> >>,
       << << << "T", "I", "M", "E", "S", "T", "A", "M", "P" >> >>, << "D", "a", "t", "e", "T", "i", "m", "e" >> >>,
       << << << "T", "I", "M", "E", "S", "T", "A", "M", "P", "T", "Z" >> >>, << "D", "a", "t", "e", "T", "i", "m", "e" >> >>,
       << << << "N", "U", "M", "E", "R", "I", "C" >> >>, << "N", "u", "m", "e", "r", "i", "c" >> >>,
       << << << "D", "E", "C", "I", "M", "A", "L" >> >>, << "N", "u", "m", "e", "r", "i", "c" >> >>,
       << << << "N", "U", "M", "B", "E", "R" >> >>, << "N", "u", "m", "e", "r", "i", "c" >> >>,
       << << << "M", "O", "N", "E", "Y" >> >>, << "N", "u", "m", "e", "r", "i", "c" >> >>,
       << << << "R", "E", "A", "L" >> >>, << "F", "l", "o", "a", "t" >> >>,
       << << << "F", "L", "O", "A", "T" >> >>, << "F", "l", "o", "a", "t" >> >>,
       << << << "D", "O", "U", "B", "L", "E" >> >>, << "F", "l", "o", "a", "t" >> >>,
       << << << "B", "I", "N", "A", "R", "Y", "_", "F", "L", "O", "A", "T" >> >>, << "F", "l", "o", "a", "t" >> >>,
       << << << "B", "I", "N", "A", "R", "Y", "_", "D", "O", "U", "B", "L", "E" >> >>, << "F", "l", "o", "a", "t" >> >>,
       << << << "J", "S", "O", "N" >> >>, << "J", "S", "O", "N" >> >>,
       << << << "J", "S", "O", "N", "B" >> >>, << "J", "S", "O", "N" >> >>,
       << << << "U", "U", "I", "D" >> >>, << "S", "t", "r", "i", "n", "g" >> >>,
       << << << "U", "N", "I", "Q", "U", "E", "I", "D", "E", "N", "T", "I", "F", "I", "E", "R" >> >>, << "S", "t", "r", "i", "n", "g" >> >>,
       << << << "A", "R", "R", "A", "Y" >> >>, << "A", "R", "R", "A", "Y" >> >>,
       << << << "V", "A", "R", "B", "I", "N", "A", "R", "Y" >> >>, << "L", "a", "r", "g", "e", "B", "i", "n", "a", "r", "y" >> >>,
       << << << "B", "L", "O", "B" >> >>, << "L", "a", "r", "g", "e", "B", "i", "n", "a", "r", "y" >> >>,
       << << << "L", "O", "N", "G", "B", "L", "O", "B" >> >>, << "L", "a", "r", "g", "e", "B", "i", "n", "a", "r", "y" >> >>,
       << << << "B", "Y", "T", "E", "A" >> >>, << "L", "a", "r", "g", "e", "B", "i", "n", "a", "r", "y" >> >>,
       << << << "R", "A", "W" >> >>, << "L", "a", "r", "g", "e", "B", "i", "n", "a", "r", "y" >> >>,
       << << << "L", "O", "N", "G", "R", "A", "W" >> >>, << "L", "a", "r", "g", "e", "B", "i", "n", "a", "r", "y" >> >>,
       << << << "I", "M", "A", "G", "E" >> >>, << "L", "a", "r", "g", "e", "B", "i", "n", "a", "r", "y" >> >>,
       << << << "B", "I", "N", "A", "R", "Y" >> >>, << "L", "a", "r", "g", "e", "B", "i", "n", "a", "r", "y" >> >> >>

\* the bug "the declared length is dropped for the default length"
StringOf_DefaultLength(length) == << "S", "t", "r", "i", "n", "g", "(", "2", "5", "5", ")" >>

\* f'String({length})'
StringOf(length) == << "S", "t", "r", "i", "n", "g", "(" >> \o length \o << ")" >>

\* the branches of _get_cross_db_string_type on the lower-cased column name,
\* in the order of the elif chain: the keywords and the type returned
NameHeuristics ==
    << << << << "u", "u", "i", "d" >>, << "g", "u", "i", "d" >>, << "u", "n", "i", "q", "u", "e", "i", "d", "e", "n", "t", "i", "f", "i", "e", "r" >> >>, StringOf(<< "3", "6" >>) >>,
       << << << "i", "p" >>, << "a", "d", "d", "r" >>, << "a", "d", "d", "r", "e", "s", "s" >> >>, StringOf(<< "4", "5" >>) >>,
       << << << "e", "m", "a", "i", "l" >>, << "m", "a", "i", "l" >> >>, StringOf(<< "3", "2", "0" >>) >>,
       << << << "p", "h", "o", "n", "e" >>, << "t", "e", "l" >>, << "m", "o", "b", "i", "l", "e" >>, << "f", "a", "x" >> >>, StringOf(<< "2", "0" >>) >>,
       << << << "n", "a", "m", "e" >>, << "t", "i", "t", "l", "e" >>, << "l", "a", "b", "e", "l" >> >>, StringOf(<< "1", "0", "0" >>) >>,
       << << << "c", "o", "d", "e" >>, << "n", "o" >>, << "n", "u", "m", "b", "e", "r" >>, << "i", "d" >> >>, StringOf(<< "5", "0" >>) >>,
       << << << "u", "r", "l" >>, << "u", "r", "i" >>, << "l", "i", "n", "k" >> >>, StringOf(<< "2", "0", "4", "8" >>) >>,
       << << << "p", "a", "t", "h" >>, << "f", "i", "l", "e" >>, << "d", "i", "r", "e", "c", "t", "o", "r", "y" >> >>, StringOf(<< "5", "0", "0" >>) >>,
       << << << "d", "e", "s", "c" >>, << "d", "e", "s", "c", "r", "i", "p", "t", "i", "o", "n" >>, << "r", "e", "m", "a", "r", "k" >>, << "n", "o", "t", "e" >>, << "c", "o", "m", "m", "e", "n", "t" >> >>, << "T", "e", "x", "t" >> >>,
       << << << "c", "o", "n", "t", "e", "n", "t" >>, << "d", "a", "t", "a" >>, << "v", "a", "l", "u", "e" >>, << "p", "a", "r", "a", "m" >> >>, << "T", "e", "x", "t" >> >>,
       << << << "j", "s", "o", "n" >>, << "x", "m", "l" >>, << "c", "o", "n", "f", "i", "g" >>, << "s", "e", "t", "t", "i", "n", "g" >> >>, << "T", "e", "x", "t" >> >> >>

\* the value of the first row of the table one of whose keywords occurs in
\* s, << >> when no row matches (a row is a list of keywords and a value)
FirstMatch(table, s) ==
    LET hits == { k \in DOMAIN table : ContainsAny(s, table[k][1]) }
    IN IF hits = {} THEN << >>
       ELSE table[CHOOSE k \in hits : \A j \in hits : k <= j][2]

\* the bug "only oracle gets the long default"
StringTypeOr_OracleOnly(match, target) ==
    IF match # << >> THEN match
    ELSE IF target = "oracle" THEN << "S", "t", "r", "i", "n", "g", "(", "4", "0", "0", "0", ")" >>
    ELSE << "S", "t", "r", "i", "n", "g", "(", "2", "5", "5", ")" >>

\* the end of _get_cross_db_string_type: the type of the matching branch, or
\* the default length of the target database
StringTypeOr(match, target) ==
    IF match # << >> THEN match
    ELSE IF target = "oracle" THEN StringOf(<< "4", "0", "0", "0" >>)
    ELSE IF target = "mssql" THEN StringOf(<< "4", "0", "0", "0" >>)
    ELSE IF target = "mysql" THEN StringOf(<< "2", "5", "5" >>)
    ELSE StringOf(<< "2", "5", "5" >>)

\* _get_cross_db_string_type; a column_name of << >> is the missing name
GetCrossDbStringType(column_name, target) ==
    IF column_name = << >> THEN StringOf(<< "2", "5", "5" >>)
    ELSE StringTypeOr(FirstMatch(NameHeuristics, Lower(column_name)), target)

\* the scan of cross_db_type_mappings at the end of get_python_type_mapping:
\* match is the value of the first key that occurs in type_str.upper() and
\* string_type what _get_cross_db_string_type returns for the column
BaseTypeMapping(match, string_type) ==
    IF match = << >> \/ match = << "S", "t", "r", "i", "n", "g" >> THEN string_type ELSE match

\* f'Numeric({precision}, {scale})'
NumericOf(groups) ==
    << "N", "u", "m", "e", "r", "i", "c", "(" >> \o groups[1] \o << ",", " " >>
        \o (IF groups[2] # << >> THEN groups[2] ELSE << "0" >>) \o << ")" >>

\* the body of get_python_type_mapping; string_type is what the calls of
\* _get_cross_db_string_type(column_name, target_database) return, varchar,
\* char and numeric are the groups of the three re.search calls, and
\* base_match is the result of the scan of cross_db_type_mappings
TypeMapping(type_str, string_type, varchar, char, numeric, base_match) ==
    IF Contains(type_str, << "V", "A", "R", "C", "H", "A", "R" >>) \/ Contains(type_str, << "N", "V", "A", "R", "C", "H", "A", "R" >>)
    THEN IF varchar # << >>
         THEN IF ToInt(varchar) > 8000 THEN << "T", "e", "x", "t" >> ELSE StringOf(varchar)
         ELSE string_type
    ELSE IF Contains(type_str, << "C", "H", "A", "R" >>) \/ Contains(type_str, << "N", "C", "H", "A", "R" >>)
    THEN IF char # << >> THEN StringOf(char) ELSE StringOf(<< "2", "5", "5" >>)
    ELSE IF /\ ContainsAny(Upper(type_str), << << "N", "U", "M", "E", "R", "I", "C" >>, << "D", "E", "C", "I", "M", "A", "L" >>, << "N", "U", "M", "B", "E", "R" >> >>)
            /\ numeric # << >>
    THEN NumericOf(numeric)
    ELSE IF Contains(Upper(type_str), << "E", "N", "U", "M" >>) THEN StringOf(<< "2", "5", "5" >>)
    ELSE IF Contains(Upper(type_str), << "S", "E", "T" >>) THEN StringOf(<< "2", "5", "5" >>)
    ELSE BaseTypeMapping(base_match, string_type)

\* get_python_type_mapping(sqlalchemy_type, column_name, target_database),
\* type_str being str(sqlalchemy_type)
GetPythonTypeMapping(type_str, column_name, target) ==
    TypeMapping(type_str,
                GetCrossDbStringType(column_name, target),
                SearchLength(<< "V", "A", "R", "C", "H", "A", "R" >>, type_str),
                SearchLength(<< "C", "H", "A", "R" >>, type_str),
                SearchPrecision(<< << "N", "U", "M", "E", "R", "I", "C" >>, << "D", "E", "C", "I", "M", "A", "L" >>, << "N", "U", "M", "B", "E", "R" >> >>, type_str),
                FirstMatch(CrossDbTypeMappings, Upper(type_str)))

\* _is_cross_db_large_data_type
IsCrossDbLargeDataType(python_type) ==
    ContainsAny(python_type, << << "T", "e", "x", "t" >>, << "L", "a", "r", "g", "e", "B", "i", "n", "a", "r", "y" >>, << "J", "S", "O", "N" >>, << "A", "R", "R", "A", "Y" >>,
                                << "C", "L", "O", "B" >>, << "B", "L", "O", "B" >> >>)

(* --------------------------- primary key selector ---------------------- *)
\* a column of a reflected table: its name, str() of its type and its
\* primary_key flag
Column(name, type, primary_key) ==
    [name |-> name, type |-> type, primary_key |-> primary_key]

\* what get_python_type_mapping(column.type, column.name, target_database)
\* returns for each column of the table
PythonTypes(cols, target) ==
    [k \in DOMAIN cols |-> GetPythonTypeMapping(cols[k].type, cols[k].name, target)]

\* the length taken from the match of String\((\d+)\), << >> being no match
StringKeyLength(match) == IF match # << >> THEN ToInt(match) * 4 ELSE 255 * 4

\* _estimate_column_key_length
EstimateColumnKeyLength(python_type) ==
    IF Contains(python_type, << "S", "t", "r", "i", "n", "g", "(" >>)
    THEN StringKeyLength(SearchLength(<< "S", "t", "r", "i", "n", "g" >>, python_type))
    ELSE IF python_type = << "I", "n", "t", "e", "g", "e", "r" >> THEN 4
    ELSE IF python_type = << "B", "i", "g", "I", "n", "t", "e", "g", "e", "r" >> THEN 8
    ELSE IF python_type = << "S", "m", "a", "l", "l", "I", "n", "t", "e", "g", "e", "r" >> THEN 2
    ELSE IF python_type \in { << "F", "l", "o", "a", "t" >>, << "N", "u", "m", "e", "r", "i", "c" >> } THEN 8
    ELSE IF python_type \in { << "D", "a", "t", "e", "T", "i", "m", "e" >>, << "D", "a", "t", "e" >>, << "T", "i", "m", "e" >> } THEN 8
    ELSE IF python_type = << "B", "o", "o", "l", "e", "a", "n" >> THEN 1
    ELSE 255 * 4

\* the keywords of an ID-like column name
IdKeywords == << << "i", "d" >>, << "u", "u", "i", "d" >>, << "g", "u", "i", "d" >>, << "k", "e", "y" >> >>

\* one iteration of the first loop of _select_smart_primary_key on column k:
\* suitable_single_columns.insert(0, column) for an ID-like name, append
\* otherwise
PlaceSuitable(suitable, k, idlike) ==
    IF idlike THEN << k >> \o suitable ELSE Append(suitable, k)

\* the first loop of _select_smart_primary_key from column k on; types are
\* the translated types of the columns
RECURSIVE SuitableSingleColumns(_, _, _, _)
SuitableSingleColumns(cols, types, k, suitable) ==
    IF k > Len(cols) THEN suitable
    ELSE SuitableSingleColumns(cols, types, k + 1,
            IF IsCrossDbLargeDataType(types[k]) THEN suitable
            ELSE PlaceSuitable(suitable, k,
                               ContainsAny(Lower(cols[k].name), IdKeywords)))

\* max_key_length
MaxKeyLength(target) == IF target = "mysql" THEN 3000 ELSE 8000

\* the second loop of _select_smart_primary_key from column k on: the
\* columns admitted to the composite key; lengths are the estimated key
\* lengths of the columns
RECURSIVE SuitableColumns(_, _, _, _, _, _)
SuitableColumns(types, lengths, target, k, suitable, estimated_key_length) ==
    IF k > Len(types) THEN suitable
    ELSE IF IsCrossDbLargeDataType(types[k])
    THEN SuitableColumns(types, lengths, target, k + 1, suitable, estimated_key_length)
    ELSE IF estimated_key_length + lengths[k] <= MaxKeyLength(target)
    THEN SuitableColumns(types, lengths, target, k + 1, Append(suitable, k),
                         estimated_key_length + lengths[k])
    ELSE suitable

\* the end of the single-column pass: the first of the suitable columns, or
\* the columns of the composite pass when there is none
FirstOr(single, composite) == IF single # << >> THEN << single[1] >> ELSE composite

\* _select_smart_primary_key: the positions of the columns returned, in the
\* order of the list returned
SelectSmartPrimaryKey(cols, types, target) ==
    FirstOr(SuitableSingleColumns(cols, types, 1, << >>),
            SuitableColumns(types,
                            [k \in DOMAIN types |-> EstimateColumnKeyLength(types[k])],
                            target, 1, << >>, 0))

(* --------------------------- generate_orm_class_code ------------------- *)
\* the bug "primary_key=True is emitted whatever the translated type"
EmitPrimaryKey_NoDemotion(primary_key, python_type) == primary_key

\* lines 423-429: primary_key=True is emitted for a flagged column unless
\* its translated type is a large one, for which the flag is removed
EmitPrimaryKey(primary_key, python_type) ==
    primary_key /\ ~IsCrossDbLargeDataType(python_type)

\* primary_key_columns = [col for col in table.columns if col.primary_key]
FlaggedColumns(cols) ==
    SelectSeq([k \in DOMAIN cols |-> k], LAMBDA k : cols[k].primary_key)

\* the loop over table.columns: the column definitions of the descriptor
\* (name, translated type, primary_key=True emitted), the columns as the
\* call leaves them, and primary_key_columns; flags are the primary_key
\* flags of the columns when the loop starts
ColumnDefinitions(cols, types, flags, selected) ==
    [descriptor |->
        [k \in DOMAIN cols |->
            [name |-> cols[k].name,
             python_type |-> types[k],
             primary_key |-> EmitPrimaryKey(flags[k], types[k])]],
     columns |->
        [k \in DOMAIN cols |->
            [cols[k] EXCEPT !.primary_key = EmitPrimaryKey(flags[k], types[k])]],
     primary_key_columns |-> selected]

\* lines 400-406: the columns flagged in the source, or the ones
\* _select_smart_primary_key flags when there is none
PrimaryKeyColumns(flagged, smart) == IF flagged = << >> THEN smart ELSE flagged

\* generate_orm_class_code with the translated types of the columns given
ClassCode(cols, types, selected) ==
    ColumnDefinitions(cols, types,
                      [k \in DOMAIN cols |-> cols[k].primary_key \/ k \in Range(selected)],
                      selected)

\* the selection of the key columns with the translated types given
KeyColumns(cols, types, target) ==
    PrimaryKeyColumns(FlaggedColumns(cols), SelectSmartPrimaryKey(cols, types, target))

\* the two steps of generate_orm_class_code on translated types
ClassCodeOfTypes(cols, types, target) ==
    ClassCode(cols, types, KeyColumns(cols, types, target))

\* generate_orm_class_code on the columns of one table
GenerateOrmClassCode(cols, target) ==
    ClassCodeOfTypes(cols, PythonTypes(cols, target), target)

(* --------------------------- generate_orm_classes ---------------------- *)
\* values of the target_database argument ("none" is the default None)
Targets == {"none", "mysql", "oracle"}

\* column names of the reflected tables (order_id, user_key, title, remark)
\* and str() of their column types (INTEGER, VARCHAR(50), VARCHAR, TEXT, JSONB)
ColumnNames == { << "o", "r", "d", "e", "r", "_", "i", "d" >>, << "u", "s", "e", "r", "_", "k", "e", "y" >>, << "t", "i", "t", "l", "e" >>, << "r", "e", "m", "a", "r", "k" >> }
ColumnTypes == { << "I", "N", "T", "E", "G", "E", "R" >>, << "V", "A", "R", "C", "H", "A", "R", "(", "5", "0", ")" >>, << "V", "A", "R", "C", "H", "A", "R" >>, << "T", "E", "X", "T" >>, << "J", "S", "O", "N", "B" >> }

\* the column lists of at most n columns with distinct names
ColumnLists(n) ==
    UNION { { cols \in [1..m -> { Column(name, type, pk) : name \in ColumnNames,
                                    type \in ColumnTypes, pk \in BOOLEAN }] :
                \A a, b \in 1..m : a # b => cols[a].name # cols[b].name } :
            m \in 1..n }

\* the importer is not involved in a run of the generator
ImporterIdle ==
    /\ db_type = "postgresql"
    /\ drop_existing = FALSE
    /\ indexes = [t \in RunTables |-> {}]
    /\ dbTables = {}
    /\ dbIndexes = [t \in RunTables |-> {}]
    /\ created_tables = << >>
    /\ failed_tables = << >>
    /\ index_created_count = 0
    /\ index_failed_count = 0
    /\ exc = FALSE
    /\ ret = "none"
    /\ previous_result = << >>
    /\ SideCallsIdle

\* the locals of generate_orm_classes before the call
GeneratorStart ==
    /\ tables = {}
    /\ orm_codes = << >>
    /\ primary_key_columns = << >>
    /\ HelpersIdle
    /\ dependencies = << >>
    /\ in_degree = << >>
    /\ queue = << >>
    /\ result = << >>
    /\ sorted_tables = << >>
    /\ pos = 0
    /\ log = << >>
    /\ faults = 0

\* generate_orm_classes up to the reflection loop: without an engine it
\* returns {}; get_table_names returns [] when its query fails
GenerateOrmClasses ==
    /\ pc = "generate_orm_classes"
    /\ IF ~engine
       THEN /\ pc' = "done"
            /\ UNCHANGED << log, faults >>
       ELSE \E raises \in BOOLEAN :
               /\ raises => Budget > 0
               /\ log' = Append(log, Entry("get_table_names", 0, 0, NoStmt, {},
                                           IF raises THEN "failed" ELSE "ok"))
               /\ faults' = faults + (IF raises THEN 1 ELSE 0)
               /\ pc' = IF raises THEN "analyze" ELSE "reflect"
    /\ pos' = 1
    /\ UNCHANGED << genVars, previous_result, sideVars, sortVars, inputVars, dbTables,
                    dbIndexes, created_tables, failed_tables, index_created_count,
                    index_failed_count, exc, ret >>

\* the bug "the table is stored without the test table is not None"
Reflected_KeepFailed(reflected, t, raised) == reflected \cup {t}

\* tables[table_name] = table, for a reflect_table that did not return None
Reflected(reflected, t, raised) == IF raised THEN reflected ELSE reflected \cup {t}

\* one iteration of the reflection loop; table_names lists the tables in the
\* order of their names
ReflectTable ==
    /\ pc = "reflect"
    /\ \E raises \in BOOLEAN :
          /\ raises => Budget > 0
          /\ log' = Append(log, Entry("reflect_table", pos, 0, NoStmt, {},
                                      IF raises THEN "failed" ELSE "ok"))
          /\ faults' = faults + (IF raises THEN 1 ELSE 0)
          /\ tables' = Reflected(tables, pos, raises)
    /\ pc' = IF pos = NumRunTables THEN "analyze" ELSE "reflect"
    /\ pos' = IF pos = NumRunTables THEN 1 ELSE pos + 1
    /\ UNCHANGED << target_database, columns, orm_codes, primary_key_columns,
                    callVars, previous_result, sideVars, sortVars, inputVars, dbTables, dbIndexes,
                    created_tables, failed_tables, index_created_count,
                    index_failed_count, exc, ret >>

\* dependencies = self.analyze_table_dependencies(tables)
AnalyzeReflected ==
    /\ pc = "analyze"
    /\ dependencies' = AnalyzeTableDependencies([t \in tables |-> fks[t]])
    /\ pc' = "sort_init"
    /\ UNCHANGED << genVars, previous_result, sideVars, in_degree, queue, result,
                    sorted_tables, inputVars, runVars >>

\* orm_codes[table_name] = orm_code
Store(codes, t, code) ==
    [x \in DOMAIN codes \cup {t} |-> IF x = t THEN code ELSE codes[x]]

\* what a returning generate_orm_class_code leaves behind for table t
StoreClassCode(t, code) ==
    /\ orm_codes' = Store(orm_codes, t, code.descriptor)
    /\ columns' = [columns EXCEPT ![t] = code.columns]
    /\ primary_key_columns' = code.primary_key_columns

\* one iteration of the generation loop over sorted_tables
GenerateOrmClass ==
    /\ pc = "sorted"
    /\ IF pos > Len(sorted_tables)
       THEN /\ pc' = "done"
            /\ UNCHANGED << log, faults, pos, columns, orm_codes, primary_key_columns >>
       ELSE LET t == sorted_tables[pos]
            IN /\ \E raises \in BOOLEAN :
                    /\ raises => Budget > 0
                    /\ log' = Append(log, Entry("generate_orm_class_code", t, 0,
                                                NoStmt, {},
                                                IF raises THEN "failed" ELSE "ok"))
                    /\ faults' = faults + (IF raises THEN 1 ELSE 0)
                    /\ IF raises
                       THEN UNCHANGED << columns, orm_codes, primary_key_columns >>
                       ELSE StoreClassCode(t, GenerateOrmClassCode(columns[t],
                                                                   target_database))
               /\ pc' = IF pos = Len(sorted_tables) THEN "done" ELSE "sorted"
               /\ pos' = pos + 1
    /\ UNCHANGED << target_database, tables, callVars, previous_result, sideVars, sortVars,
                    inputVars, dbTables, dbIndexes, created_tables, failed_tables,
                    index_created_count, index_failed_count, exc, ret >>

\* the tables a run of the generator reflects: a table with an integer key
\* (order_id INTEGER, title VARCHAR(50)), a table whose flagged key is a text
\* column (remark TEXT), a table without a key (title VARCHAR)
GeneratorColumns ==
    { << Column(<< "o", "r", "d", "e", "r", "_", "i", "d" >>, << "I", "N", "T", "E", "G", "E", "R" >>, TRUE), Column(<< "t", "i", "t", "l", "e" >>, << "V", "A", "R", "C", "H", "A", "R", "(", "5", "0", ")" >>, FALSE) >>,
      << Column(<< "r", "e", "m", "a", "r", "k" >>, << "T", "E", "X", "T" >>, TRUE) >>,
      << Column(<< "t", "i", "t", "l", "e" >>, << "V", "A", "R", "C", "H", "A", "R" >>, FALSE) >> }

\* a call of generate_orm_classes
GeneratorInit ==
    /\ ImporterIdle
    /\ GeneratorStart
    /\ engine \in BOOLEAN
    /\ target_database \in Targets
    /\ fks \in FKMaps(RunTables, MaxRunFKs)
    /\ columns \in [RunTables -> GeneratorColumns]
    /\ pc = "generate_orm_classes"

GeneratorNext ==
    \/ GenerateOrmClasses
    \/ ReflectTable
    \/ AnalyzeReflected
    \/ SortInit
    \/ SortStep
    \/ SortFinish
    \/ GenerateOrmClass

GeneratorSpec == GeneratorInit /\ [][GeneratorNext]_vars

(* --------------------- get_python_type_mapping alone ------------------- *)
\* values of the target_database argument of a direct call ("none" is None)
TargetDatabases == {"none", "mysql", "oracle", "mssql", "postgresql"}

\* the declared lengths: the digit strings of at most MaxDigits digits over
\* 0, 5 and 8 (50, 800, 8000, 8005, 8500, ...)
DeclaredLengths ==
    UNION { [1..n -> {"0", "5", "8"}] : n \in 1..MaxDigits }

\* str() of a character type with a declared length
LengthTypes ==
    { word \o << "(" >> \o n \o << ")" >> :
        word \in { << "V", "A", "R", "C", "H", "A", "R" >>, << "N", "V", "A", "R", "C", "H", "A", "R" >>, << "C", "H", "A", "R" >>, << "N", "C", "H", "A", "R" >> },
        n \in DeclaredLengths }

\* str() of the other column types: every spelling of the lookup table, an
\* unknown type, numeric types with precision, an enumeration, an array
PlainTypes ==
    { CrossDbTypeMappings[k][1][1] : k \in DOMAIN CrossDbTypeMappings }
        \cup { << "F", "R", "O", "B", "T", "Y", "P", "E" >>, << "I", "N", "T", "E", "R", "V", "A", "L" >>, << "N", "U", "M", "E", "R", "I", "C", "(", "1", "0", ",", " ", "2", ")" >>, << "D", "E", "C", "I", "M", "A", "L", "(", "8", ")" >>, << "E", "N", "U", "M" >>,
               << "I", "N", "T", "E", "G", "E", "R", "[", "]" >> }

\* column names handed to the translation; << >> is the missing name
TypedColumnNames ==
    { << >>, << "m", "i", "s", "c" >>, << "u", "s", "e", "r", "_", "i", "d" >>, << "u", "s", "e", "r", "_", "e", "m", "a", "i", "l" >>, << "d", "e", "s", "c", "r", "i", "p", "t", "i", "o", "n" >>, << "r", "e", "m", "a", "r", "k" >>, << "t", "i", "t", "l", "e" >> }

\* get_python_type_mapping called on the only column of the table 1
GetPythonTypeMappingCall ==
    /\ pc = "get_python_type_mapping"
    /\ mapped_type' = GetPythonTypeMapping(columns[1][1].type, columns[1][1].name,
                                           target_database)
    /\ pc' = "done"
    /\ UNCHANGED << target_database, columns, tables, orm_codes, primary_key_columns,
                    db_indexes, table_args, previous_result, sideVars, sortVars, inputVars,
                    runVars >>

\* a column of any of the types and names above, for any target database
TypeMappingInit ==
    /\ ImporterIdle
    /\ GeneratorStart
    /\ engine = TRUE
    /\ target_database \in TargetDatabases
    /\ fks = [t \in {1} |-> {}]
    /\ \E type \in LengthTypes \cup PlainTypes, name \in TypedColumnNames :
          columns = [t \in {1} |-> << Column(name, type, FALSE) >>]
    /\ pc = "get_python_type_mapping"

TypeMappingNext == GetPythonTypeMappingCall

TypeMappingSpec == TypeMappingInit /\ [][TypeMappingNext]_vars

(* ----------------------------- index planner --------------------------- *)
\* table.name of the table t
TableName(t) == << "t", "_", Digits[t + 1] >>

\* the patterns of index_patterns, in the order of the list
IndexPatterns ==
    << << "f", "k", "_" >>, << "_", "i", "d" >>, << "c", "r", "e", "a", "t", "e", "_", "t", "i", "m", "e" >>, << "u", "p", "d", "a", "t", "e", "_", "t", "i", "m", "e" >>, << "m", "o", "d", "i", "f", "i", "e", "d", "_", "t", "i", "m", "e" >>, << "d", "a", "t", "e" >>, << "t", "i", "m", "e" >>,
       << "s", "t", "a", "t", "u", "s" >>, << "s", "t", "a", "t", "e" >>, << "f", "l", "a", "g" >>, << "u", "s", "e", "r", "_", "i", "d" >>, << "u", "s", "e", "r", "n", "a", "m", "e" >>, << "c", "o", "d", "e" >>, << "n", "a", "m", "e" >>, << "t", "y", "p", "e" >> >>

\* f"Index('{index_name}', ...columns..., unique=True)": an index definition
\* is kept as its name, its column names and its unique flag
IndexDef(name, column_names, unique) ==
    [name |-> name, column_names |-> column_names, unique |-> unique]

\* the definition _recommend_indexes appends for a column
RecommendedIndex(t, column_name) ==
    IndexDef(<< "i", "d", "x", "_" >> \o TableName(t) \o << "_" >> \o column_name, << column_name >>, FALSE)

\* the tests of one iteration of _recommend_indexes: the column is not a
\* primary key, its translated type is not large, a pattern is in its name
RecommendColumn(primary_key, large, matched) == ~primary_key /\ ~large /\ matched

\* _recommend_indexes from column k on; types are the translated types
RECURSIVE RecommendIndexes(_, _, _, _)
RecommendIndexes(t, cols, types, k) ==
    IF k > Len(cols) THEN << >>
    ELSE (IF RecommendColumn(cols[k].primary_key, IsCrossDbLargeDataType(types[k]),
                             ContainsAny(Lower(cols[k].name), IndexPatterns))
          THEN << RecommendedIndex(t, cols[k].name) >> ELSE << >>)
         \o RecommendIndexes(t, cols, types, k + 1)

\* idx.get('name', '').lower().startswith('primary')
NamedPrimary(idx) == OccursAt(<< "p", "r", "i", "m", "a", "r", "y" >>, Lower(idx.name), 1)

\* the loop over db_indexes of _get_table_indexes: the definitions of the
\* indexes whose name does not start with primary
RECURSIVE DetectedIndexes(_, _)
DetectedIndexes(found, k) ==
    IF k > Len(found) THEN << >>
    ELSE (IF NamedPrimary(found[k]) THEN << >>
          ELSE << IndexDef(found[k].name, found[k].column_names, found[k].unique) >>)
         \o DetectedIndexes(found, k + 1)

\* if not indexes: indexes.extend(self._recommend_indexes(...))
IndexesOr(detected, recommended) == IF detected = << >> THEN recommended ELSE detected

\* the value returned: a list holding the one __table_args__ definition
\* that carries every index, or the empty list
TableArgs(planned) == IF planned = << >> THEN << >> ELSE << planned >>

\* _get_table_indexes on the table t; found is what get_indexes returned
\* (<< >> when the introspection raised)
GetTableIndexes(t, cols, found, target) ==
    TableArgs(IndexesOr(DetectedIndexes(found, 1),
                        RecommendIndexes(t, cols, PythonTypes(cols, target), 1)))

\* the indexes the inspector may report for the table 1: an ordinary index,
\* a unique index whose name starts with primary, and the index of the
\* primary key under the name PRIMARY; primary_key tells whether the index
\* is the one of the primary key, which the dict of the inspector does not say
ReportedIndexes ==
    { [name |-> << "i", "x", "_", "t", "i", "t", "l", "e" >>, column_names |-> << << "t", "i", "t", "l", "e" >> >>, unique |-> FALSE,
       primary_key |-> FALSE],
      [name |-> << "p", "r", "i", "m", "a", "r", "y", "_", "c", "o", "n", "t", "a", "c", "t", "_", "u", "q" >>, column_names |-> << << "t", "i", "t", "l", "e" >>, << "s", "t", "a", "t", "u", "s" >> >>,
       unique |-> TRUE, primary_key |-> FALSE],
      [name |-> << "P", "R", "I", "M", "A", "R", "Y" >>, column_names |-> << << "u", "s", "e", "r", "_", "i", "d" >> >>, unique |-> TRUE,
       primary_key |-> TRUE] }

\* the lists of at most n distinct reported indexes
IndexReports(n) ==
    UNION { { r \in [1..m -> ReportedIndexes] : \A a, b \in 1..m : a # b => r[a] # r[b] } :
            m \in 0..n }

\* the columns of the table 1 the planner is called on
PlannedColumnNames == { << "u", "s", "e", "r", "_", "i", "d" >>, << "s", "t", "a", "t", "u", "s" >>, << "t", "i", "t", "l", "e" >>, << "r", "e", "m", "a", "r", "k" >> }
PlannedColumnTypes == { << "I", "N", "T", "E", "G", "E", "R" >>, << "V", "A", "R", "C", "H", "A", "R" >> }
PlannedColumnLists(n) ==
    UNION { { cols \in [1..m -> { Column(name, type, pk) : name \in PlannedColumnNames,
                                    type \in PlannedColumnTypes, pk \in BOOLEAN }] :
                \A a, b \in 1..m : a # b => cols[a].name # cols[b].name } :
            m \in 1..n }

\* _get_table_indexes called on the table 1; inspector.get_indexes may raise
GetTableIndexesCall ==
    /\ pc = "get_table_indexes"
    /\ \E raises \in BOOLEAN :
          /\ raises => Budget > 0
          /\ log' = Append(log, Entry("get_indexes", 1, 0, NoStmt, {},
                                      IF raises THEN "failed" ELSE "ok"))
          /\ faults' = faults + (IF raises THEN 1 ELSE 0)
          /\ table_args' = GetTableIndexes(1, columns[1],
                                           IF raises THEN << >> ELSE db_indexes,
                                           target_database)
    /\ pc' = "done"
    /\ UNCHANGED << target_database, columns, tables, orm_codes, primary_key_columns,
                    mapped_type, db_indexes, previous_result, sideVars, sortVars, inputVars,
                    dbTables, dbIndexes, pos, created_tables, failed_tables,
                    index_created_count, index_failed_count, exc, ret >>

\* a reflected table of at most MaxCols columns with at most MaxIdx indexes
IndexPlanInit ==
    /\ ImporterIdle
    /\ tables = {}
    /\ orm_codes = << >>
    /\ primary_key_columns = << >>
    /\ mapped_type = << >>
    /\ table_args = << >>
    /\ dependencies = << >>
    /\ in_degree = << >>
    /\ queue = << >>
    /\ result = << >>
    /\ sorted_tables = << >>
    /\ pos = 0
    /\ log = << >>
    /\ faults = 0
    /\ engine = TRUE
    /\ target_database = "none"
    /\ fks = [t \in {1} |-> {}]
    /\ columns \in [{1} -> PlannedColumnLists(MaxCols)]
    /\ db_indexes \in IndexReports(MaxIdx)
    /\ pc = "get_table_indexes"

IndexPlanNext == GetTableIndexesCall

IndexPlanSpec == IndexPlanInit /\ [][IndexPlanNext]_vars

(* --------------------- generate_orm_class_code alone ------------------- *)
\* generate_orm_class_code called on the table 1
GenerateOrmClassCodeCall ==
    /\ pc = "generate_orm_class_code"
    /\ StoreClassCode(1, GenerateOrmClassCode(columns[1], target_database))
    /\ pc' = "done"
    /\ UNCHANGED << target_database, tables, callVars, previous_result, sideVars, sortVars,
                    inputVars, runVars >>

\* a reflected table of at most MaxCols columns
ClassCodeInit ==
    /\ ImporterIdle
    /\ GeneratorStart
    /\ engine = TRUE
    /\ target_database \in Targets
    /\ fks = [t \in {1} |-> {}]
    /\ columns \in [{1} -> ColumnLists(MaxCols)]
    /\ pc = "generate_orm_class_code"

ClassCodeNext == GenerateOrmClassCodeCall

ClassCodeSpec == ClassCodeInit /\ [][ClassCodeNext]_vars

(* --------------------- generate_orm_class_code twice ------------------- *)
\* generate_orm_class_code is called once more on the same table object
\* (print_orm_classes, then generate_cross_db_compatible_orm_file): the
\* primary_key flags are as the first call left them, its descriptor is
\* kept for comparison
GenerateOrmClassCodeAgain ==
    /\ pc = "done"
    /\ previous_result = << >>
    /\ previous_result' = << orm_codes[1] >>
    /\ pc' = "generate_orm_class_code"
    /\ UNCHANGED << genVars, sideVars, sortVars, inputVars, runVars >>

ClassCodeTwiceNext == GenerateOrmClassCodeCall \/ GenerateOrmClassCodeAgain

ClassCodeTwiceSpec == ClassCodeInit /\ [][ClassCodeTwiceNext]_vars

(* ----------------------------- connections ----------------------------- *)
\* the session functions that open their own "with self.engine.connect()"
SessionFunctions ==
    {"disable_foreign_key_checks", "enable_foreign_key_checks",
     "set_database_session_variables", "reset_database_session_variables"}

\* the operations bound to the engine (bind=self.engine), which checks a
\* connection out for the one operation
EngineBound == {"drop_table", "create_table", "create_index"}

\* entry k of the log starts on a connection of its own: a session function
\* opening its connection, an engine-bound operation, the connection
\* _drop_table_indexes opens for the indexes of one table, the commit of
\* self.session; the statements a session function executes stay on the
\* connection the function opened
OpensConnection(l, k) ==
    \/ l[k].op \in SessionFunctions \cup EngineBound \cup {"commit"}
    \/ /\ l[k].op = "drop_index"
       /\ k = 1 \/ l[k - 1].op # "drop_index" \/ l[k - 1].t # l[k].t

\* the connection entry k runs on, numbered in the order of opening
ConnectionOf(l, k) == Cardinality({ j \in 1..k : OpensConnection(l, j) })

(* ------------------------------ properties ----------------------------- *)
\* positions of the log entries of an operation
Ops(op) == { k \in DOMAIN log : log[k].op = op }
OpsOn(op, t) == { k \in Ops(op) : log[k].t = t }
Failed(op) == { k \in Ops(op) : log[k].outcome = "failed" }

\* the tables of the map that a depends on, directly or transitively
RECURSIVE Closure(_, _, _)
Closure(deps, S, n) ==
    IF n = 0 THEN S
    ELSE Closure(deps, S \cup UNION { deps[x] \cap DOMAIN deps : x \in S }, n - 1)
DependsOn(deps, a) == Closure(deps, deps[a] \cap DOMAIN deps, Cardinality(DOMAIN deps))
OnCycle(deps, a) == a \in DependsOn(deps, a)

Sorted == pc \notin {"start", "sort_init", "sort_loop"}
\* an exception left the try body (a drop or the commit raised)
Escaped == Failed("drop_table") # {} \/ Failed("commit") # {}
Phase1Done == pc \in {"commit", "phase2", "return"} \/ Ops("commit") # {}
Phase2Done == (pc = "return" \/ pc \in {"finally", "exit_ctx", "done"}) /\ ~Escaped

\* C1: for distinct tables A, B of the working set where A holds a foreign
\* key to B and B does not depend on A, the sort lists B before A and phase 1
\* attempts to create B before A.
C1_DependencyFirst ==
    Sorted =>
        \A A, B \in DOMAIN dependencies :
            (A # B /\ B \in fks[A] /\ A \notin DependsOn(dependencies, B)) =>
                /\ IndexOf(sorted_tables, B) < IndexOf(sorted_tables, A)
                /\ \A j \in OpsOn("create_table", A), k \in OpsOn("create_table", B) :
                      k < j

\* C2: for any dependency map over N tables (acyclic, cyclic, self
\* referencing or naming tables outside the map) the sort returns a list of
\* exactly N entries in which every table of the map occurs exactly once and
\* no other name occurs; while it runs no table is listed twice.
C2_SortIsPermutation ==
    /\ \A j, k \in DOMAIN result : j # k => result[j] # result[k]
    /\ Range(result) \subseteq DOMAIN dependencies
    /\ pc = "sorted" =>
          /\ Len(sorted_tables) = Cardinality(DOMAIN dependencies)
          /\ \A t \in DOMAIN dependencies :
                Cardinality({ k \in DOMAIN sorted_tables : sorted_tables[k] = t }) = 1
          /\ Range(sorted_tables) = DOMAIN dependencies

C2_Witness ==
    /\ pc = "sorted"
    /\ \E t \in DOMAIN dependencies : t \in dependencies[t]
    /\ \E t \in DOMAIN dependencies : Outside \in dependencies[t]
    /\ \E a, b \in DOMAIN dependencies :
          a # b /\ a \in dependencies[b] /\ Len(sorted_tables) = NumTables

\* C3: in the sort output every table that lies on a cycle appears after
\* every table that neither lies on a cycle nor depends on one (stated for
\* the maps analyze_table_dependencies can build: no table depends on itself
\* or on a table outside the map).
C3_CyclicAfterAcyclic ==
    (pc = "sorted" /\ dependencies = AnalyzeTableDependencies(dependencies)) =>
        \A c, a \in DOMAIN dependencies :
            ( /\ OnCycle(dependencies, c)
              /\ ~OnCycle(dependencies, a)
              /\ \A x \in DependsOn(dependencies, a) : ~OnCycle(dependencies, x) )
            => IndexOf(sorted_tables, a) < IndexOf(sorted_tables, c)

\* C4: if the structural creation of table T raises in phase 1, T is in the
\* failures list, T is not in the list of created tables, phase 2 attempts no
\* index creation for T, and every table ordered after T is still attempted
\* in phase 1.
C4_FailureIsolated ==
    \A k \in Failed("create_table") :
        LET T == log[k].t IN
        /\ T \in Range(failed_tables)
        /\ T \notin Range(created_tables)
        /\ OpsOn("create_index", T) = {}
        /\ Phase1Done =>
              \A u \in Range(sorted_tables) :
                  IndexOf(sorted_tables, u) > IndexOf(sorted_tables, T) =>
                      \E j \in OpsOn("create_table", u) : j > k

C4_Witness ==
    /\ pc = "done"
    /\ \E k \in Failed("create_table") :
          /\ IndexOf(sorted_tables, log[k].t) < Len(sorted_tables)
          /\ \E j \in Ops("create_index") : j > k

\* C5: for mysql, mariadb, oracle and mssql, once the pre-flight disable has
\* been issued, on every exit path the session-variable reset and then the
\* integrity-check re-enable are each invoked exactly once before the call
\* returns.
C5_ResetThenEnable ==
    (pc = "done" /\ Ops("disable_foreign_key_checks") # {}) =>
        /\ Cardinality(Ops("reset_database_session_variables")) = 1
        /\ Cardinality(Ops("enable_foreign_key_checks")) = 1
        /\ \A d \in Ops("disable_foreign_key_checks"),
              r \in Ops("reset_database_session_variables"),
              e \in Ops("enable_foreign_key_checks") : d < r /\ r < e

C5_Witness ==
    /\ pc = "done"
    /\ db_type \in ToggleDialects
    /\ Ops("disable_foreign_key_checks") # {}
    /\ Escaped

\* C6: every session setting that a pre-flight statement changes is restored
\* by a post-flight statement on that same setting (stated for the runs in
\* which no operation failed).
C6_StatementsMatched ==
    (pc = "done" /\ faults = 0) =>
        \A k \in Ops("execute") :
            (\A r \in Ops("reset_database_session_variables") : k < r) =>
                \E j \in Ops("execute") :
                    /\ \E r \in Ops("reset_database_session_variables") : r < j
                    /\ SettingOf(log[j].stmt) = SettingOf(log[k].stmt)

\* C7 as stated: the run reports success exactly when the structural
\* failures list is empty at its end.
C7_SuccessIffNoFailures ==
    pc = "done" => (ret = "True" <=> Len(failed_tables) = 0)

\* C7 as amended: the run reports success exactly when no exception left the
\* try body (no table drop and no commit raised) and the structural failures
\* list is empty; failed index creations never change the result.
C7_SuccessIffNoFailuresNoException ==
    pc = "done" => (ret = "True" <=> (~Escaped /\ Len(failed_tables) = 0))

C7_Witness ==
    /\ pc = "done"
    /\ ret = "True"
    /\ Failed("create_index") # {}

\* C8: with drop_existing, for tables A, B where A holds a foreign key to B,
\* A is dropped before B (both existing on the target), the indexes of a
\* table are dropped before the table, and every drop happens before the
\* first table creation.
C8_DependentsDroppedFirst ==
    /\ \A A, B \in DOMAIN dependencies :
          (A # B /\ B \in fks[A]) =>
              \A j \in OpsOn("drop_table", A), k \in OpsOn("drop_table", B) :
                  (log[j].outcome # "skipped" /\ log[k].outcome # "skipped") => j < k
    /\ \A t \in DOMAIN dependencies :
          \A j \in OpsOn("drop_index", t), k \in OpsOn("drop_table", t) : j < k
    /\ \A j \in Ops("drop_table") \cup Ops("drop_index"), k \in Ops("create_table") :
          j < k

\* C9: at the end of phase 2 the index-failure count equals the number of
\* index creations that failed during phase 2.
C9_IndexFailuresCounted ==
    Phase2Done => index_failed_count = Cardinality(Failed("create_index"))

\* C10: a failure while creating one index never prevents the attempt to
\* create the remaining indexes of the same table nor the indexes of a later
\* table of the created list, and never removes a table from the created
\* list or adds it to the structural failures list.
C10_IndexFailureIsolated ==
    /\ \A k \in Ops("create_index") :
          /\ log[k].t \in Range(created_tables)
          /\ log[k].t \notin Range(failed_tables)
    /\ Phase2Done =>
          \A t \in Range(created_tables) : \A x \in indexes[t] :
              \/ x \in dbIndexes[t]
              \/ \E k \in OpsOn("create_index", t) : log[k].idx = x

C10_Witness ==
    /\ pc = "done"
    /\ \E k \in Failed("create_index") :
          /\ \E j \in OpsOn("create_index", log[k].t) : j > k
          /\ \E j \in Ops("create_index") : j > k /\ log[j].t # log[k].t

\* C11: table creation is staged. No index is created before the structural
\* creation of every table of the sorted list has been attempted, a structural
\* create carries none of the indexes of its table, and within each phase the
\* operations follow the order of the sorted list.
C11_StagedCreation ==
    /\ \A k \in Ops("create_index") : \A t \in Range(sorted_tables) :
           \E j \in OpsOn("create_table", t) : j < k
    /\ \A k \in Ops("create_table") : log[k].carried = {}
    /\ \A j, k \in Ops("create_table") :
           j < k => IndexOf(sorted_tables, log[j].t) < IndexOf(sorted_tables, log[k].t)
    /\ \A j, k \in Ops("create_index") :
           j < k => IndexOf(sorted_tables, log[j].t) <= IndexOf(sorted_tables, log[k].t)

\* a finished run that created every table and then indexes of every table
C11_Witness ==
    /\ pc = "done"
    /\ \A t \in RunTables :
          /\ \E k \in OpsOn("create_table", t) : log[k].outcome = "ok"
          /\ \E k \in OpsOn("create_index", t) : log[k].outcome = "ok"

\* C12: for the dialects postgresql and sqlite a run executes no session-level
\* statement at all, neither before the phases nor after them.
C12_NoSessionStatements ==
    db_type \in {"postgresql", "sqlite"} => Ops("execute") = {}

\* C12 (amended): for postgresql and sqlite the integrity check is never
\* toggled; sqlite executes no session statement, postgresql executes only
\* its tuning statements synchronous_commit and checkpoint_segments.
C12_NoToggleStatements ==
    db_type \in {"postgresql", "sqlite"} =>
        /\ Ops("disable_foreign_key_checks") = {}
        /\ Ops("enable_foreign_key_checks") = {}
        /\ db_type = "sqlite" => Ops("execute") = {}
        /\ \A k \in Ops("execute") :
              SettingOf(log[k].stmt) \in {"synchronous_commit", "checkpoint_segments"}

\* a finished postgresql run that executed its tuning and its reset statement
C12_Witness ==
    /\ pc = "done"
    /\ db_type = "postgresql"
    /\ \E j, k \in Ops("execute") :
          /\ j < k
          /\ log[j].stmt = Stmt("synchronous_commit", "off")
          /\ log[k].stmt = Stmt("synchronous_commit", "on")
    /\ Ops("create_table") # {}

\* C13: all the statements of one run (integrity toggle, session tuning, DDL of
\* every phase, reset) are executed on one and the same connection.
C13_OneConnection ==
    \A j, k \in Ops("execute") \cup Ops("drop_index") \cup Ops("drop_table")
                \cup Ops("create_table") \cup Ops("create_index") :
        (log[j].outcome # "skipped" /\ log[k].outcome # "skipped")
            => ConnectionOf(log, j) = ConnectionOf(log, k)

\* a session function could not connect, or the target rejected one of the
\* statements of the integrity toggle, the tuning or the reset
Rejection ==
    \/ Failed("execute") # {}
    \/ \E fn \in SessionFunctions : Failed(fn) # {}

\* the statements stmts follow the call entry k of a session function
AllAttempted(k, stmts) ==
    \A i \in DOMAIN stmts :
        /\ k + i \in Ops("execute")
        /\ log[k + i].stmt = stmts[i]

\* C14: a rejected toggle, tuning or reset statement does not abort the run.
\* In a finished run with such a rejection in which no table drop and no
\* commit raised, every tuning and reset statement was still attempted, the
\* structural creation was attempted for every table and the index creation
\* for every created table, and the result is success exactly when no
\* structural creation failed.
C14_RejectionTolerated ==
    (pc = "done" /\ Rejection /\ ~Escaped) =>
        /\ \A k \in Ops("set_database_session_variables") :
              log[k].outcome = "ok" => AllAttempted(k, SessionVars(db_type))
        /\ \A k \in Ops("reset_database_session_variables") :
              log[k].outcome = "ok" => AllAttempted(k, ResetVars(db_type))
        /\ \A t \in RunTables : OpsOn("create_table", t) # {}
        /\ \A t \in Range(created_tables) : \A i \in indexes[t] :
              i \in dbIndexes[t] \/ \E k \in OpsOn("create_index", t) : log[k].idx = i
        /\ Ops("reset_database_session_variables") # {}
        /\ ret = "True" <=> failed_tables = << >>

\* a finished run in which the first tuning statement was rejected, the next
\* one executed, and tables and indexes were created
C14_Witness ==
    /\ pc = "done"
    /\ \E k \in Ops("set_database_session_variables") :
          /\ k + 2 \in Ops("execute")
          /\ log[k + 1].outcome = "failed"
          /\ log[k + 2].outcome = "ok"
    /\ \E k \in Ops("create_index") : log[k].outcome = "ok"
    /\ ret = "True"

\* C15: when the existing tables cannot be listed, or when there is no engine,
\* create_tables aborts: it issues no table drop, no table creation and no
\* index creation, and it returns failure.
C15_AbortsWithoutIntrospection ==
    (~engine \/ Failed("get_existing_tables") # {}) =>
        /\ Ops("drop_table") = {}
        /\ Ops("create_table") = {}
        /\ Ops("create_index") = {}
        /\ pc = "done" => ret = "False"

\* C17: the sort is deterministic. Two invocations on the same dependency map
\* return the same sequence, the order of the left-over tables included.
C17_SortDeterministic ==
    (pc = "sorted" /\ previous_result # << >>) => sorted_tables = previous_result

\* C16: in generate_orm_classes a table whose reflection fails is left out of
\* the working set while every other table is still reflected, ordered and
\* generated, and a table whose generation fails is skipped without stopping
\* the generation of the tables after it.
C16_FailuresSkipped ==
    (pc = "done" /\ Ops("get_table_names") # {} /\ Failed("get_table_names") = {}) =>
        \A t \in RunTables :
            /\ OpsOn("reflect_table", t) # {}
            /\ IF \E k \in OpsOn("reflect_table", t) : log[k].outcome = "failed"
               THEN /\ t \notin tables
                    /\ t \notin DOMAIN dependencies
                    /\ t \notin Range(sorted_tables)
                    /\ OpsOn("generate_orm_class_code", t) = {}
                    /\ t \notin DOMAIN orm_codes
               ELSE /\ t \in tables
                    /\ t \in Range(sorted_tables)
                    /\ OpsOn("generate_orm_class_code", t) # {}
                    /\ t \in DOMAIN orm_codes
                         <=> \E k \in OpsOn("generate_orm_class_code", t) :
                                log[k].outcome = "ok"

\* a finished run in which the reflection of the first table failed and the
\* descriptor of a later table was generated
C16_Witness ==
    /\ pc = "done"
    /\ \E k \in OpsOn("reflect_table", 1) : log[k].outcome = "failed"
    /\ \E t \in RunTables : t > 1 /\ t \in DOMAIN orm_codes

\* a finished run in which the generation of one table failed and the
\* descriptor of the table after it in the sorted list was generated
C16_GenerationFailureReached ==
    /\ pc = "done"
    /\ \E j, k \in Ops("generate_orm_class_code") :
          /\ j < k
          /\ log[j].outcome = "failed"
          /\ log[k].outcome = "ok"

\* the translated types the claims call large: Text, LargeBinary, JSON and
\* the array type
LargeTypeNames == { << "T", "e", "x", "t" >>, << "L", "a", "r", "g", "e", "B", "i", "n", "a", "r", "y" >>, << "J", "S", "O", "N" >>, << "A", "R", "R", "A", "Y" >> }

\* C18: in every descriptor generate_orm_class_code produces, no column whose
\* translated type is Text, LargeBinary, JSON or an array is marked primary
\* key, whether the flag came from the source or from the selector.
C18_NoLargePrimaryKey ==
    \A t \in DOMAIN orm_codes : \A k \in DOMAIN orm_codes[t] :
        orm_codes[t][k].primary_key => orm_codes[t][k].python_type \notin LargeTypeNames

\* a descriptor of a table whose source flags a large column as primary key
\* next to a column that keeps its flag
C18_Witness ==
    /\ pc = "done"
    /\ 1 \in DOMAIN orm_codes
    /\ \E j, k \in Range(primary_key_columns) :
          /\ orm_codes[1][j].python_type \in LargeTypeNames
          /\ ~orm_codes[1][j].primary_key
          /\ orm_codes[1][k].primary_key

\* the columns of cols that are not large and whose name is ID-like, in
\* declaration order; types are the translated types of the columns
IdCandidates(cols, types) ==
    SelectSeq([k \in DOMAIN cols |-> k],
              LAMBDA k : /\ ~IsCrossDbLargeDataType(types[k])
                         /\ ContainsAny(Lower(cols[k].name), IdKeywords))

\* the selector is called: the table has no flagged column
SelectorCalled == pc = "generate_orm_class_code" /\ FlaggedColumns(columns[1]) = << >>

\* C19: when several columns that are not large have an ID-like name, the
\* selector returns the first of them in declaration order as the only
\* primary key column.
C19_FirstIdColumn ==
    [][ (/\ SelectorCalled
         /\ Len(IdCandidates(columns[1], PythonTypes(columns[1], target_database))) >= 2)
        => primary_key_columns' =
              << IdCandidates(columns[1], PythonTypes(columns[1], target_database))[1] >>
      ]_vars

\* the composite key of the claim: every column that is not large, admitted
\* in declaration order while the running estimate stays within the limit
CompositeKey(types, target) ==
    SuitableColumns(types, [k \in DOMAIN types |-> EstimateColumnKeyLength(types[k])],
                    target, 1, << >>, 0)

\* C20: when no column name is ID-like, the selector returns the composite
\* key of the columns that are not large, admitted in declaration order while
\* the estimate stays within the limit (3000 for mysql, 8000 otherwise); the
\* two columns String(50), Integer are both admitted.
C20_CompositeKey ==
    [][ (/\ SelectorCalled
         /\ \A k \in DOMAIN columns[1] :
               ~ContainsAny(Lower(columns[1][k].name), IdKeywords))
        => primary_key_columns' =
              CompositeKey(PythonTypes(columns[1], target_database), target_database)
      ]_vars


(* ----------------------- claims on the type translation ---------------- *)
\* the arguments and the result of the finished call of
\* get_python_type_mapping
TypeArg == columns[1][1].type
NameArg == columns[1][1].name
Translated == pc = "done" /\ mapped_type # << >>

\* C21: every String(n) that get_python_type_mapping returns has n <= 8000,
\* whatever the native type (VARCHAR(n), NVARCHAR(n), CHAR(n), NCHAR(n)) or
\* the heuristic the length comes from.
C21_StringLengthCapped ==
    Translated =>
        \A n \in { SearchLength(<< "S", "t", "r", "i", "n", "g" >>, mapped_type) } :
            n # << >> => ToInt(n) <= 8000

\* C22: for VARCHAR(n) and NVARCHAR(n) the translation is String(n) when
\* n <= 8000 and Text when n > 8000, for every column name and target.
C22_DeclaredLengthKept ==
    Translated =>
        \A word \in { << "V", "A", "R", "C", "H", "A", "R" >>, << "N", "V", "A", "R", "C", "H", "A", "R" >> }, n \in DeclaredLengths :
            TypeArg = word \o << "(" >> \o n \o << ")" >> =>
                mapped_type = IF ToInt(n) > 8000 THEN << "T", "e", "x", "t" >>
                              ELSE << "S", "t", "r", "i", "n", "g", "(" >> \o n \o << ")" >>

\* VARCHAR(50) of a column named description, for oracle: String(50)
C22_Witness ==
    /\ Translated
    /\ TypeArg = << "V", "A", "R", "C", "H", "A", "R", "(", "5", "0", ")" >>
    /\ NameArg = << "d", "e", "s", "c", "r", "i", "p", "t", "i", "o", "n" >>
    /\ target_database = "oracle"
    /\ mapped_type = << "S", "t", "r", "i", "n", "g", "(", "5", "0", ")" >>

\* the keyword groups of the heuristic as the claim lists them: the first
\* group is id, uuid, guid
ClaimedHeuristics ==
    [NameHeuristics EXCEPT ![1] = << << << "i", "d" >>, << "u", "u", "i", "d" >>, << "g", "u", "i", "d" >> >>, << "S", "t", "r", "i", "n", "g", "(", "3", "6", ")" >> >>]

\* C23: for a string column without declared length whose lower-cased name
\* contains a keyword, the translation is the outcome of the first group, in
\* the order id/uuid/guid->36, ip/addr/address->45, email/mail->320, ...,
\* that has a keyword in the name; a name containing id yields String(36).
C23_FirstKeywordGroup ==
    (Translated /\ TypeArg = << "V", "A", "R", "C", "H", "A", "R" >> /\ NameArg # << >>) =>
        \A claimed \in { FirstMatch(ClaimedHeuristics, Lower(NameArg)) } :
            claimed # << >> => mapped_type = claimed

\* C24: a native spelling of the lookup table that no earlier rule catches
\* translates to the kind the table gives for that spelling (TIMESTAMP,
\* TIMESTAMPTZ, DATETIME and DATETIME2 to DateTime, ...), a String kind
\* taking its length from the column name.
C24_TableKind ==
    Translated =>
        \A k \in DOMAIN CrossDbTypeMappings :
            (/\ TypeArg = CrossDbTypeMappings[k][1][1]
             /\ ~Contains(TypeArg, << "C", "H", "A", "R" >>))
            => \/ mapped_type = CrossDbTypeMappings[k][2]
               \/ /\ CrossDbTypeMappings[k][2] = << "S", "t", "r", "i", "n", "g" >>
                  /\ mapped_type = GetCrossDbStringType(NameArg, target_database)

\* the translations without argument of the closed vocabulary
GenericKinds ==
    { << "I", "n", "t", "e", "g", "e", "r" >>, << "B", "i", "g", "I", "n", "t", "e", "g", "e", "r" >>, << "S", "m", "a", "l", "l", "I", "n", "t", "e", "g", "e", "r" >>, << "T", "e", "x", "t" >>, << "B", "o", "o", "l", "e", "a", "n" >>, << "N", "u", "m", "e", "r", "i", "c" >>,
      << "F", "l", "o", "a", "t" >>, << "D", "a", "t", "e" >>, << "T", "i", "m", "e" >>, << "D", "a", "t", "e", "T", "i", "m", "e" >>, << "J", "S", "O", "N" >>, << "L", "a", "r", "g", "e", "B", "i", "n", "a", "r", "y" >> }

\* C25: get_python_type_mapping always returns, and what it returns is one
\* of Integer, BigInteger, SmallInteger, String(n), Text, Boolean,
\* Numeric(p,s), Float, Date, Time, DateTime, JSON, LargeBinary.
C25_ClosedVocabulary ==
    Translated =>
        \/ mapped_type \in GenericKinds
        \/ OccursAt(<< "S", "t", "r", "i", "n", "g", "(" >>, mapped_type, 1)
        \/ OccursAt(<< "N", "u", "m", "e", "r", "i", "c", "(" >>, mapped_type, 1)

\* C26: a native type that no rule and no spelling of the table matches, on
\* a column whose name has no keyword, translates to String(4000) for
\* oracle and mssql and to String(255) for mysql and any other target.
C26_DialectDefault ==
    (/\ Translated
     /\ NameArg # << >>
     /\ FirstMatch(NameHeuristics, Lower(NameArg)) = << >>
     /\ ~ContainsAny(Upper(TypeArg), << << "E", "N", "U", "M" >>, << "S", "E", "T" >> >>)
     /\ FirstMatch(CrossDbTypeMappings, Upper(TypeArg)) = << >>)
    => mapped_type = IF target_database \in {"oracle", "mssql"}
                     THEN << "S", "t", "r", "i", "n", "g", "(", "4", "0", "0", "0", ")" >> ELSE << "S", "t", "r", "i", "n", "g", "(", "2", "5", "5", ")" >>

\* FROBTYPE of a column named misc, for mssql: String(4000)
C26_Witness ==
    /\ Translated
    /\ TypeArg = << "F", "R", "O", "B", "T", "Y", "P", "E" >>
    /\ NameArg = << "m", "i", "s", "c" >>
    /\ target_database = "mssql"
    /\ mapped_type = << "S", "t", "r", "i", "n", "g", "(", "4", "0", "0", "0", ")" >>


(* ------------------------ claims on the index planner ------------------ *)
\* the call of _get_table_indexes has returned
Planned == pc = "done" /\ Ops("get_indexes") # {}

\* the secondary indexes the introspection yielded: the reported indexes
\* that are not the index of the primary key, none when get_indexes raised
SecondaryIndexes ==
    IF Failed("get_indexes") # {} THEN {}
    ELSE { idx \in Range(db_indexes) : ~idx.primary_key }

\* the index definitions the returned __table_args__ carries
PlannedIndexes == IF table_args = << >> THEN << >> ELSE table_args[1]

\* the column k of the table 1 is one the claim plans an index for
Indexable(k) ==
    /\ ~columns[1][k].primary_key
    /\ ~IsCrossDbLargeDataType(GetPythonTypeMapping(columns[1][k].type,
                                                    columns[1][k].name, target_database))
    /\ ContainsAny(Lower(columns[1][k].name), IndexPatterns)

\* C27: _get_table_indexes synthesizes indexes only when the introspection
\* yields no secondary index; it then plans exactly one single-column,
\* non-unique index idx_<table>_<column> for each column that is no primary
\* key, is not large and has a keyword in its name, and none for any other
\* column, so the planned names are unique. When a secondary index was
\* reported, every planned index is a reported one.
C27_SynthesizedOnlyWithoutSecondary ==
    Planned =>
        IF SecondaryIndexes = {}
        THEN /\ \A k \in DOMAIN columns[1] :
                    Indexable(k) <=>
                        \E j \in DOMAIN PlannedIndexes :
                            PlannedIndexes[j] = RecommendedIndex(1, columns[1][k].name)
             /\ \A j \in DOMAIN PlannedIndexes : \E k \in DOMAIN columns[1] :
                    PlannedIndexes[j] = RecommendedIndex(1, columns[1][k].name)
             /\ \A i, j \in DOMAIN PlannedIndexes :
                    i # j => PlannedIndexes[i].name # PlannedIndexes[j].name
        ELSE \A j \in DOMAIN PlannedIndexes : \E idx \in SecondaryIndexes :
                    PlannedIndexes[j] = IndexDef(idx.name, idx.column_names, idx.unique)


(* ------------------- more claims on create_tables_ordered -------------- *)
\* C28: once phase 1 has processed a table, whether its structural creation
\* succeeded or raised, the index set of the table's descriptor is the one
\* it had before: the stripped indexes are always restored.
C28_IndexesRestored ==
    [][pc = "phase1" => indexes'[sorted_tables[pos]] = indexes[sorted_tables[pos]]]_vars


\* the statements of the list stmts are the entries that follow entry c of
\* the log, in order, and all come before entry k
ExecutedBetween(c, stmts, k) ==
    \A i \in DOMAIN stmts :
        /\ c + i < k
        /\ log[c + i].op = "execute"
        /\ log[c + i].stmt = stmts[i]

\* C30: for mysql, mariadb, oracle and mssql the run issues the statement
\* that disables the integrity check first, then the session-tuning
\* statements of the dialect, and only afterwards any drop, create-table or
\* create-index operation (a call whose connection fails issues nothing
\* and is followed by the next step all the same).
C30_DisableTuneOperate ==
    db_type \in {"mysql", "mariadb", "oracle", "mssql"} =>
        /\ \A s \in Ops("set_database_session_variables") :
               \E d \in Ops("disable_foreign_key_checks") :
                   /\ d < s
                   /\ log[d].outcome = "ok" =>
                         ExecutedBetween(d, DisableStatements(db_type), s)
        /\ \A k \in DOMAIN log :
               log[k].op \in {"drop_index", "drop_table", "create_table", "create_index"} =>
                   \E s \in Ops("set_database_session_variables") :
                       /\ s < k
                       /\ log[s].outcome = "ok" =>
                             ExecutedBetween(s, SessionVars(db_type), k)

\* a finished oracle run that disabled the check, tuned the session, then
\* dropped, created and indexed a table
C30_Witness ==
    /\ pc = "done"
    /\ db_type = "oracle"
    /\ faults = 0
    /\ \E d \in Ops("disable_foreign_key_checks"), s \in Ops("set_database_session_variables"),
          x \in Ops("drop_table"), c \in Ops("create_table"), i \in Ops("create_index") :
            d < s /\ s < x /\ x < c /\ c < i

(* ------------------ more claims on generate_orm_class_code ------------- *)
\* C29: a table that has no primary-key column once the flags of its large
\* columns are demoted, also when its only flagged columns are large ones,
\* is handed to _select_smart_primary_key; so its descriptor is without
\* primary key only when the selector finds no eligible column.
C29_SelectorAfterDemotion ==
    (/\ pc = "done"
     /\ 1 \in DOMAIN orm_codes
     /\ \A k \in DOMAIN orm_codes[1] : ~orm_codes[1][k].primary_key)
    => SelectSmartPrimaryKey(columns[1], PythonTypes(columns[1], target_database),
                             target_database) = << >>

(* ----------------------------- claims on phase 2 ------------------------ *)
\* entry k of the log is about index x of table t
About(k, t, x) == log[k].t = t /\ log[k].idx = x

\* index x of table t was on the target when phase 2 began: it is there now
\* and no entry of the log created it
PresentBefore(t, x) ==
    /\ x \in dbIndexes[t]
    /\ \A k \in OpsOn("create_index", t) : log[k].idx = x => log[k].outcome # "ok"

\* C31: phase 2 issues a create-index operation for index I of table T
\* exactly when T is in the phase-1 success list and the existence check does
\* not report I as present; an index the check finds on the target is
\* never created again (when the check itself fails, the creation is
\* attempted and rejected by the target), and the tables are visited in the
\* order of phase 1.
C31_CreatedWhenNotReported ==
    /\ \A k \in Ops("create_index") :
          /\ log[k].t \in Range(created_tables)
          /\ k > 1
          /\ log[k - 1].op = "index_exists"
          /\ About(k - 1, log[k].t, log[k].idx)
          /\ log[k - 1].outcome # "present"
          /\ PresentBefore(log[k].t, log[k].idx) => log[k].outcome = "failed"
    /\ \A k \in Ops("index_exists") :
          /\ log[k].outcome # "present" =>
                /\ k + 1 \in Ops("create_index")
                /\ About(k + 1, log[k].t, log[k].idx)
          /\ (PresentBefore(log[k].t, log[k].idx) /\ log[k].outcome # "failed") =>
                /\ log[k].outcome = "present"
                /\ \A j \in OpsOn("create_index", log[k].t) : log[j].idx # log[k].idx
          /\ Cardinality({ j \in Ops("index_exists") : About(j, log[k].t, log[k].idx) }) = 1
    /\ Phase2Done =>
          \A t \in Range(created_tables) : \A x \in indexes[t] :
              \E k \in OpsOn("index_exists", t) : log[k].idx = x
    /\ \A j, k \in Ops("index_exists") :
          j < k => IndexOf(created_tables, log[j].t) <= IndexOf(created_tables, log[k].t)
    /\ \A a, b \in DOMAIN created_tables :
          a < b => \A j \in OpsOn("create_table", created_tables[a]),
                      k \in OpsOn("create_table", created_tables[b]) : j < k

\* a finished run on a target that held the tables and their indexes: one
\* index was reported present and left alone, the check of another one
\* failed and its creation was attempted and rejected
C31_Witness ==
    /\ pc = "done"
    /\ \E j, k \in Ops("index_exists") :
          /\ log[j].outcome = "present"
          /\ log[k].outcome = "failed"
          /\ PresentBefore(log[k].t, log[k].idx)
          /\ log[k + 1].op = "create_index"
          /\ log[k + 1].outcome = "failed"

(* ---------------------- claims on the dependency map ------------------- *)
\* C32: the dependency map has exactly the tables of the working set as
\* nodes, and the dependency set of a table A is exactly the set of tables
\* B # A of the working set that A holds a foreign key to; a foreign key to
\* a table outside the working set or to A itself produces no edge.
C32_InScopeEdges ==
    pc # "start" =>
        /\ DOMAIN dependencies = DOMAIN fks
        /\ \A A \in DOMAIN fks : \A B \in Tables \cup {Outside} :
              B \in dependencies[A] <=> (B \in fks[A] /\ B \in DOMAIN fks /\ B # A)

\* a table that references itself, a table outside the working set and
\* another table of the working set, after the analysis
C32_Witness ==
    /\ pc = "sorted"
    /\ \E A \in DOMAIN fks :
          /\ A \in fks[A]
          /\ \E O \in fks[A] : O \notin DOMAIN fks
          /\ \E B \in dependencies[A] : B # A

(* ------------------------ more claims on the sort ---------------------- *)
\* the tables of the map that no table of the map depends on, in the order
\* of the map
NotDependedOn ==
    SelectSeq(TableOrder(dependencies),
              LAMBDA t : \A a \in DOMAIN dependencies : t \notin dependencies[a])

C34_DropFailureAborts ==
    /\ \A k \in Failed("drop_table") :
          /\ drop_existing
          /\ \A j \in DOMAIN log :
                j > k => log[j].op \notin {"drop_index", "drop_table", "create_table",
                                          "index_exists", "create_index", "commit"}
          /\ pc = "done" =>
                /\ \E r \in Ops("reset_database_session_variables") :
                      /\ r > k
                      /\ db_type \in {"mysql", "mariadb", "oracle", "mssql"} =>
                            \E n \in Ops("enable_foreign_key_checks") : n > r
                /\ ret = "False"
    /\ \A k \in Failed("drop_index") :
          \E j \in OpsOn("drop_table", log[k].t) : j > k /\ log[j].outcome # "skipped"

\* a finished mysql run in which the drop of the first table visited raised
\* while another table was still to be dropped
C34_Witness ==
    /\ pc = "done"
    /\ db_type = "mysql"
    /\ \E k \in Failed("drop_table") :
          /\ log[k].t = Reverse(sorted_tables)[1]
          /\ Reverse(sorted_tables)[2] \in dbTables
    /\ Ops("enable_foreign_key_checks") # {}

(* -------------------- claims on check_table_differences ---------------- *)
\* the existing tables as check_table_differences sees them: the tables of
\* the target, or none when the listing failed
ExistingTables == IF Failed("get_existing_tables") = {} THEN dbTables ELSE {}

\* no element occurs twice in the list s
NoRepeat(s) == \A j, k \in DOMAIN s : j # k => s[j] # s[k]

\* C35: for every set of model tables and every set of existing tables,
\* check_table_differences returns three pairwise disjoint lists: new_tables
\* and existing_tables partition the model tables, and orphaned_tables is
\* exactly the existing tables that are not model tables, so no table is
\* both new and orphaned.
C35_DifferencesPartition ==
    pc = "done" =>
        LET new == Range(differences.new_tables)
            existing == Range(differences.existing_tables)
            orphaned == Range(differences.orphaned_tables)
        IN /\ new \cap existing = {}
           /\ new \cap orphaned = {}
           /\ existing \cap orphaned = {}
           /\ new \cup existing = DOMAIN fks
           /\ existing = DOMAIN fks \cap ExistingTables
           /\ orphaned = ExistingTables \ DOMAIN fks
           /\ NoRepeat(differences.new_tables)
           /\ NoRepeat(differences.existing_tables)
           /\ NoRepeat(differences.orphaned_tables)

\* a call that found a new table, an existing one and two orphans
C35_Witness ==
    /\ pc = "done"
    /\ Len(differences.new_tables) = 1
    /\ Len(differences.existing_tables) = 1
    /\ Len(differences.orphaned_tables) = 2

(* ----------------------------- claims on a re-run ---------------------- *)
\* the first run returned success and left every table with all its indexes
FullySuccessful(first) ==
    /\ first.ret = "True"
    /\ first.dbTables = RunTables
    /\ \A t \in RunTables : first.dbIndexes[t] = indexes[t]

\* C36: re-running create_tables_ordered without drop_existing against the
\* target left by a fully successful first run is idempotent: the second
\* run creates no table and no index (its created-index count is 0), leaves
\* the tables and indexes of the target unchanged and, when nothing fails
\* during it, attempts no creation of an index and returns success again.
C36_RerunIdempotent ==
    (previous_result # << >> /\ FullySuccessful(previous_result[1])) =>
        /\ dbTables = previous_result[1].dbTables
        /\ dbIndexes = previous_result[1].dbIndexes
        /\ \A k \in Ops("create_table") : log[k].outcome = "skipped"
        /\ \A k \in Ops("create_index") : log[k].outcome = "failed"
        /\ index_created_count = 0
        /\ faults = previous_result[1].faults =>
              /\ Ops("create_index") = {}
              /\ failed_tables = << >>
              /\ pc = "done" => ret = "True"

\* a finished second run after a first run that created two tables and
\* their indexes: every table was skipped and every index found present
C36_Witness ==
    /\ pc = "done"
    /\ previous_result # << >>
    /\ FullySuccessful(previous_result[1])
    /\ \A t \in RunTables :
          /\ indexes[t] # {}
          /\ \E k \in OpsOn("create_table", t) : log[k].outcome = "skipped"
          /\ \A x \in indexes[t] :
                \E k \in OpsOn("index_exists", t) : log[k].idx = x /\ log[k].outcome = "present"
    /\ ret = "True"

(* ------------------- claims on a repeated generation ------------------- *)
\* the columns a descriptor declares with primary_key=True
KeysOf(descriptor) == { k \in DOMAIN descriptor : descriptor[k].primary_key }

\* C37: two calls of generate_orm_class_code on the same reflected table
\* yield the same set of primary-key columns, although the first call
\* changes the primary_key flags of the columns in place.
C37_SameKeysTwice ==
    (pc = "done" /\ previous_result # << >>) =>
        KeysOf(orm_codes[1]) = KeysOf(previous_result[1])


(* --------------------------- claims on the two sorts ------------------- *)
\* C38: the generator's topological_sort and the importer's
\* topological_sort_tables, run side by side on the same dependency map, go
\* through the same in-degree, queue and result states and return the same
\* list.
C38_SortsEquivalent ==
    pc \in {"sort_loop", "sorted"} =>
        /\ generator_sort.in_degree = in_degree
        /\ generator_sort.queue = queue
        /\ generator_sort.result = result

====
